---- MODULE Spec2Model ----
(***************************************************************************)
(* A model of the chess move selector of src/chess/src/chess.c:            *)
(* parse_fen, evaluate, find_piece, apply_move and choose_move.            *)
(*                                                                         *)
(* Characters are their ASCII codes, a C string is the sequence of its     *)
(* codes without the terminating NUL (reading one past the end gives 0),   *)
(* and a board is a function [0..7 -> [0..7 -> code]] with row 0 = rank 8  *)
(* and column 0 = file a, as char board[ROWS][COLS] in the source.         *)
(***************************************************************************)
EXTENDS Integers, Sequences, FiniteSets, TLC

(* ------------------------------------------------------------------ *)
(* Characters and C strings                                           *)
(* ------------------------------------------------------------------ *)

\* The printable ASCII characters, code 32 first (three of them by name).
Ascii == <<
    " ", "!", "dquote", "#", "$", "%", "&", "'", "(", ")", "*", "+", ",", "-", ".", "/",
    "0", "1", "2", "3", "4", "5", "6", "7", "8", "9", ":", ";", "<", "=", ">", "?",
    "@", "A", "B", "C", "D", "E", "F", "G", "H", "I", "J", "K", "L", "M", "N", "O",
    "P", "Q", "R", "S", "T", "U", "V", "W", "X", "Y", "Z", "[", "backslash", "]", "^", "_",
    "backtick", "a", "b", "c", "d", "e", "f", "g", "h", "i", "j", "k", "l", "m", "n", "o",
    "p", "q", "r", "s", "t", "u", "v", "w", "x", "y", "z", "{", "|", "}", "~" >>

\* The code of a character literal.
Ord(ch) == 31 + (CHOOSE k \in 1..Len(Ascii) : Ascii[k] = ch)

\* A string literal, written as a tuple of one-character strings.
Str(s) == [k \in 1..Len(s) |-> Ord(s[k])]

NUL == 0
SPACE == Ord(" ")
HASH == Ord("#")
PLUS == Ord("+")
DOT == Ord(".")
SLASH == Ord("/")
EQUALS == Ord("=")
Ch_0 == Ord("0")
Ch_1 == Ord("1")
Ch_8 == Ord("8")
Ch_A == Ord("A")
Ch_B == Ord("B")
Ch_K == Ord("K")
Ch_N == Ord("N")
Ch_O == Ord("O")
Ch_P == Ord("P")
Ch_Q == Ord("Q")
Ch_R == Ord("R")
Ch_Z == Ord("Z")
ch_a == Ord("a")
ch_b == Ord("b")
ch_h == Ord("h")
ch_k == Ord("k")
ch_n == Ord("n")
ch_p == Ord("p")
ch_q == Ord("q")
ch_r == Ord("r")
ch_w == Ord("w")
ch_x == Ord("x")
ch_z == Ord("z")

\* s[k] of a C string, k counted from 1; the terminator is read as 0.
At(s, k) == IF k \in 1..Len(s) THEN s[k] ELSE NUL

isupper(c) == c \in Ch_A..Ch_Z
islower(c) == c \in ch_a..ch_z
toupper(c) == IF islower(c) THEN c - 32 ELSE c
tolower(c) == IF isupper(c) THEN c + 32 ELSE c
abs(n) == IF n < 0 THEN -n ELSE n

ROWS == 8
COLS == 8
MAX_MOVES == 256
MAX_MOVE_LEN == 16
MOVES_COPY_SIZE == 4096

VAL_PAWN == 100
VAL_KNIGHT == 320
VAL_BISHOP == 330
VAL_ROOK == 500
VAL_QUEEN == 900
VAL_KING == 20000

(* ------------------------------------------------------------------ *)
(* piece_value                                                        *)
(* ------------------------------------------------------------------ *)
\* Mutant of piece_value: a bishop is valued as a knight.
piece_value_bishop_as_knight(piece) ==
    CASE piece = Ch_P -> VAL_PAWN
      [] piece = Ch_N -> VAL_KNIGHT
      [] piece = Ch_B -> VAL_KNIGHT
      [] piece = Ch_R -> VAL_ROOK
      [] piece = Ch_Q -> VAL_QUEEN
      [] piece = Ch_K -> VAL_KING
      [] piece = ch_p -> -VAL_PAWN
      [] piece = ch_n -> -VAL_KNIGHT
      [] piece = ch_b -> -VAL_KNIGHT
      [] piece = ch_r -> -VAL_ROOK
      [] piece = ch_q -> -VAL_QUEEN
      [] piece = ch_k -> -VAL_KING
      [] OTHER -> 0

piece_value(piece) ==
    CASE piece = Ch_P -> VAL_PAWN
      [] piece = Ch_N -> VAL_KNIGHT
      [] piece = Ch_B -> VAL_BISHOP
      [] piece = Ch_R -> VAL_ROOK
      [] piece = Ch_Q -> VAL_QUEEN
      [] piece = Ch_K -> VAL_KING
      [] piece = ch_p -> -VAL_PAWN
      [] piece = ch_n -> -VAL_KNIGHT
      [] piece = ch_b -> -VAL_BISHOP
      [] piece = ch_r -> -VAL_ROOK
      [] piece = ch_q -> -VAL_QUEEN
      [] piece = ch_k -> -VAL_KING
      [] OTHER -> 0

(* ------------------------------------------------------------------ *)
(* parse_fen                                                          *)
(* ------------------------------------------------------------------ *)
EmptyBoard == [r \in 0..(ROWS - 1) |-> [c \in 0..(COLS - 1) |-> DOT]]

\* Mutant of rank_placement: a letter past the eighth column is written to
\* the rank below.
RECURSIVE rank_placement_wraps(_, _, _, _, _)
rank_placement_wraps(fen, p, row, col, board) ==
    CASE At(fen, p) = NUL \/ At(fen, p) = SPACE \/ At(fen, p) = SLASH ->
            [board |-> board, p |-> p, col |-> col]
      [] At(fen, p) >= Ch_1 /\ At(fen, p) <= Ch_8 ->
            rank_placement_wraps(fen, p + 1, row, col + (At(fen, p) - Ch_0), board)
      [] OTHER ->
            rank_placement_wraps(fen, p + 1, row, col + 1,
                           IF row * COLS + col < ROWS * COLS
                           THEN [board EXCEPT ![(row * COLS + col) \div COLS]
                                                  [(row * COLS + col) % COLS] = At(fen, p)]
                           ELSE board)

\* The iterations of the piece-placement loop up to the next rank separator
\* or the end of the field: the board, the cursor p (counted from 1) and the
\* column then, started with the given cursor, row, column and board.
RECURSIVE rank_placement(_, _, _, _, _)
rank_placement(fen, p, row, col, board) ==
    CASE At(fen, p) = NUL \/ At(fen, p) = SPACE \/ At(fen, p) = SLASH ->
            [board |-> board, p |-> p, col |-> col]
      [] At(fen, p) >= Ch_1 /\ At(fen, p) <= Ch_8 ->
            rank_placement(fen, p + 1, row, col + (At(fen, p) - Ch_0), board)
      [] OTHER ->
            rank_placement(fen, p + 1, row, col + 1,
                           IF row < ROWS /\ col < COLS
                           THEN [board EXCEPT ![row][col] = At(fen, p)]
                           ELSE board)

\* Mutant of fen_placement: the column is not reset at a rank separator.
RECURSIVE fen_placement_keeps_col(_, _, _, _, _)
fen_placement_keeps_col(fen, p, row, col, board) ==
    LET rank == rank_placement(fen, p, row, col, board) IN
    IF At(fen, rank.p) = SLASH
    THEN fen_placement_keeps_col(fen, rank.p + 1, row + 1, rank.col, rank.board)
    ELSE rank

\* The piece-placement loop: the state after the loop, started at cursor p
\* (counted from 1) with the given row, column and board.
RECURSIVE fen_placement(_, _, _, _, _)
fen_placement(fen, p, row, col, board) ==
    LET rank == rank_placement(fen, p, row, col, board) IN
    IF At(fen, rank.p) = SLASH
    THEN fen_placement(fen, rank.p + 1, row + 1, 0, rank.board)
    ELSE rank

\* parse_fen(fen, board, &side): the board and the side it stores.
parse_fen(fen) ==
    LET placed == fen_placement(fen, 1, 0, 0, EmptyBoard)
        p == IF At(fen, placed.p) = SPACE THEN placed.p + 1 ELSE placed.p
    IN [board |-> placed.board, side |-> At(fen, p)]

(* ------------------------------------------------------------------ *)
(* evaluate                                                           *)
(* ------------------------------------------------------------------ *)
centre_bonus == <<
    <<0, 0, 0, 0, 0, 0, 0, 0>>,
    <<0, 0, 0, 0, 0, 0, 0, 0>>,
    <<0, 0, 1, 2, 2, 1, 0, 0>>,
    <<0, 0, 2, 3, 3, 2, 0, 0>>,
    <<0, 0, 2, 3, 3, 2, 0, 0>>,
    <<0, 0, 1, 2, 2, 1, 0, 0>>,
    <<0, 0, 0, 0, 0, 0, 0, 0>>,
    <<0, 0, 0, 0, 0, 0, 0, 0>> >>

\* Mutant of square_score: a Black pawn is advanced as a White pawn is.
square_score_one_way(board, row, col) ==
    LET piece == board[row][col] IN
    IF piece = DOT THEN 0
    ELSE piece_value(piece)
         + (IF piece = Ch_N \/ piece = Ch_B
            THEN centre_bonus[row + 1][col + 1] * 5
            ELSE IF piece = ch_n \/ piece = ch_b
            THEN -(centre_bonus[row + 1][col + 1] * 5)
            ELSE 0)
         + (IF piece = Ch_P THEN (7 - row) * 5
            ELSE IF piece = ch_p THEN -((7 - row) * 5)
            ELSE 0)

\* Mutant of square_score: material only, no positional terms.
square_score_material(board, row, col) ==
    IF board[row][col] = DOT THEN 0 ELSE piece_value(board[row][col])

\* What one square adds to the score (the body of the inner loop of evaluate).
square_score(board, row, col) ==
    LET piece == board[row][col] IN
    IF piece = DOT THEN 0
    ELSE piece_value(piece)
         + (IF piece = Ch_N \/ piece = Ch_B
            THEN centre_bonus[row + 1][col + 1] * 5
            ELSE IF piece = ch_n \/ piece = ch_b
            THEN -(centre_bonus[row + 1][col + 1] * 5)
            ELSE 0)
         + (IF piece = Ch_P THEN (7 - row) * 5
            ELSE IF piece = ch_p THEN -(row * 5)
            ELSE 0)

\* The inner loop: what the squares of the row from column col on add.
RECURSIVE row_score(_, _, _)
row_score(board, row, col) ==
    IF col = COLS THEN 0
    ELSE square_score(board, row, col) + row_score(board, row, col + 1)

\* The outer loop: what the rows from the row given on add.
RECURSIVE evaluate_from(_, _)
evaluate_from(board, row) ==
    IF row = ROWS THEN 0
    ELSE row_score(board, row, 0) + evaluate_from(board, row + 1)

evaluate(board) == evaluate_from(board, 0)

(* ------------------------------------------------------------------ *)
(* find_piece                                                         *)
(* ------------------------------------------------------------------ *)
knight_dr == <<-2, -2, -1, -1, 1, 1, 2, 2>>
knight_dc == <<-1, 1, -2, 2, -2, 2, -1, 1>>
rdr == <<-1, 1, 0, 0>>
rdc == <<0, 0, -1, 1>>
qdr == <<-1, -1, -1, 0, 0, 1, 1, 1>>
qdc == <<-1, 0, 1, -1, 1, -1, 0, 1>>
bishop_dr == <<-1, -1, 1, 1>>
bishop_dc == <<-1, 1, -1, 1>>

\* Mutant of ray_reaches: the squares passed are not tested.
ray_reaches_over(board, r, c, dr, dc, dest_row, dest_col) ==
    \E n \in 1..(ROWS - 1) :
        /\ r + n * dr = dest_row
        /\ c + n * dc = dest_col

\* One ray walk of a sliding piece (the inner while loop): from (r, c) in
\* direction (dr, dc) the walk reaches the destination at some step n while
\* still on the board, every square passed before it being empty.
ray_reaches(board, r, c, dr, dc, dest_row, dest_col) ==
    \E n \in 1..(ROWS - 1) :
        /\ r + n * dr = dest_row
        /\ c + n * dc = dest_col
        /\ \A m \in 1..(n - 1) :
              /\ r + m * dr \in 0..(ROWS - 1)
              /\ c + m * dc \in 0..(COLS - 1)
              /\ board[r + m * dr][c + m * dc] = DOT

\* Mutant of pawn_reaches: no two-square advance from the starting rank.
pawn_reaches_one_step(board, piece, r, c, dest_row, dest_col) ==
    LET ahead == IF isupper(piece) THEN r - 1 ELSE r + 1 IN
    \/ c = dest_col /\ board[dest_row][dest_col] = DOT /\ ahead = dest_row
    \/ ahead = dest_row /\ (c - 1 = dest_col \/ c + 1 = dest_col)

\* The pawn case of the switch, for the pawn standing on (r, c).
pawn_reaches(board, piece, r, c, dest_row, dest_col) ==
    IF isupper(piece)
    THEN \/ /\ c = dest_col
            /\ board[dest_row][dest_col] = DOT
            /\ \/ r - 1 = dest_row
               \/ r = 6 /\ dest_row = 4 /\ board[5][c] = DOT
         \/ /\ r - 1 = dest_row
            /\ (c - 1 = dest_col \/ c + 1 = dest_col)
    ELSE \/ /\ c = dest_col
            /\ board[dest_row][dest_col] = DOT
            /\ \/ r + 1 = dest_row
               \/ r = 1 /\ dest_row = 3 /\ board[2][c] = DOT
         \/ /\ r + 1 = dest_row
            /\ (c - 1 = dest_col \/ c + 1 = dest_col)

\* The king case of the switch.
king_reaches(r, c, dest_row, dest_col) ==
    abs(r - dest_row) <= 1 /\ abs(c - dest_col) <= 1

\* The switch on the piece kind: the piece on (r, c) reaches the destination.
can_reach(board, piece, r, c, dest_row, dest_col) ==
    LET kind == toupper(piece) IN
    CASE kind = Ch_P -> pawn_reaches(board, piece, r, c, dest_row, dest_col)
      [] kind = Ch_N ->
            \E k \in 1..8 : /\ r + knight_dr[k] = dest_row
                            /\ c + knight_dc[k] = dest_col
      [] kind = Ch_B ->
            \E k \in 1..4 : ray_reaches(board, r, c, bishop_dr[k], bishop_dc[k],
                                        dest_row, dest_col)
      [] kind = Ch_R ->
            \E k \in 1..4 : ray_reaches(board, r, c, rdr[k], rdc[k],
                                        dest_row, dest_col)
      [] kind = Ch_Q ->
            \E k \in 1..8 : ray_reaches(board, r, c, qdr[k], qdc[k],
                                        dest_row, dest_col)
      [] kind = Ch_K -> king_reaches(r, c, dest_row, dest_col)
      [] OTHER -> FALSE

\* Mutant of candidate: the file hint is not tested.
candidate_any_file(board, piece, r, c, dest_row, dest_col, src_row_hint, src_col_hint) ==
    /\ board[r][c] = piece
    /\ ~(src_row_hint >= 0 /\ r # src_row_hint)
    /\ can_reach(board, piece, r, c, dest_row, dest_col)

\* The tests of one iteration of the scan: piece type, hints, reachability.
candidate(board, piece, r, c, dest_row, dest_col, src_row_hint, src_col_hint) ==
    /\ board[r][c] = piece
    /\ ~(src_row_hint >= 0 /\ r # src_row_hint)
    /\ ~(src_col_hint >= 0 /\ c # src_col_hint)
    /\ can_reach(board, piece, r, c, dest_row, dest_col)

\* Mutant of find_piece: the scan keeps the last candidate.
find_piece_last(board, piece, dest_row, dest_col, src_row_hint, src_col_hint) ==
    LET hits == {k \in 0..(ROWS * COLS - 1) :
                    candidate(board, piece, k \div COLS, k % COLS,
                              dest_row, dest_col, src_row_hint, src_col_hint)}
    IN IF hits = {}
       THEN [found |-> 0, row |-> -1, col |-> -1]
       ELSE LET last == CHOOSE k \in hits : \A j \in hits : k >= j
            IN [found |-> 1, row |-> last \div COLS, col |-> last % COLS]

\* find_piece: the row-major scan stops at the first candidate.
find_piece(board, piece, dest_row, dest_col, src_row_hint, src_col_hint) ==
    LET hits == {k \in 0..(ROWS * COLS - 1) :
                    candidate(board, piece, k \div COLS, k % COLS,
                              dest_row, dest_col, src_row_hint, src_col_hint)}
    IN IF hits = {}
       THEN [found |-> 0, row |-> -1, col |-> -1]
       ELSE LET first == CHOOSE k \in hits : \A j \in hits : k <= j
            IN [found |-> 1, row |-> first \div COLS, col |-> first % COLS]

(* ------------------------------------------------------------------ *)
(* apply_move                                                         *)
(* ------------------------------------------------------------------ *)
WHITE == ch_w

\* strncpy(dst, src, n) followed by dst[n] = 0: at most n characters of src.
strncpy(src, n) == SubSeq(src, 1, IF Len(src) < n THEN Len(src) ELSE n)

\* Mutant of strip_suffix: one trailing mark at most is removed.
strip_suffix_once(buf, blen) ==
    IF blen > 0 /\ (buf[blen] = PLUS \/ buf[blen] = HASH)
    THEN blen - 1
    ELSE blen

\* The suffix-stripping loop: the length left after removing trailing + and #.
RECURSIVE strip_suffix(_, _)
strip_suffix(buf, blen) ==
    IF blen > 0 /\ (buf[blen] = PLUS \/ buf[blen] = HASH)
    THEN strip_suffix(buf, blen - 1)
    ELSE blen

\* The disambiguation loop, from cursor mid up to dest_start (both counted
\* from 1): the hints after the loop, started with the given hints.
RECURSIVE parse_hints(_, _, _, _, _)
parse_hints(buf, mid, dest_start, src_row_hint, src_col_hint) ==
    IF ~(mid < dest_start)
    THEN [row |-> src_row_hint, col |-> src_col_hint]
    ELSE IF buf[mid] = ch_x
    THEN parse_hints(buf, mid + 1, dest_start, src_row_hint, src_col_hint)
    ELSE IF buf[mid] >= ch_a /\ buf[mid] <= ch_h
    THEN parse_hints(buf, mid + 1, dest_start, src_row_hint, buf[mid] - ch_a)
    ELSE IF buf[mid] >= Ch_1 /\ buf[mid] <= Ch_8
    THEN parse_hints(buf, mid + 1, dest_start, Ch_8 - buf[mid], src_col_hint)
    ELSE parse_hints(buf, mid + 1, dest_start, src_row_hint, src_col_hint)

KingsideTokens ==
    { Str(<<"O", "-", "O">>), Str(<<"O", "-", "O", "+">>), Str(<<"O", "-", "O", "#">>) }
QueensideTokens ==
    { Str(<<"O", "-", "O", "-", "O">>), Str(<<"O", "-", "O", "-", "O", "+">>),
      Str(<<"O", "-", "O", "-", "O", "#">>) }

\* Mutant of castle: the pieces are moved only if the king stands on e.
castle_if_king(board, side, rook_from, king_to, rook_to) ==
    LET row == IF side = WHITE THEN 7 ELSE 0
        king == IF side = WHITE THEN Ch_K ELSE ch_k
        rook == IF side = WHITE THEN Ch_R ELSE ch_r
    IN IF board[row][4] # king \/ board[row][rook_from] # rook
       THEN board
       ELSE [board EXCEPT ![row] = [@ EXCEPT ![4] = DOT, ![rook_from] = DOT,
                                             ![king_to] = king, ![rook_to] = rook]]

\* The two castling branches: the board after castling with the rook coming
\* from column rook_from, the king going to king_to and the rook to rook_to.
castle(board, side, rook_from, king_to, rook_to) ==
    LET row == IF side = WHITE THEN 7 ELSE 0
        b1 == [board EXCEPT ![row][4] = DOT]
        b2 == [b1 EXCEPT ![row][rook_from] = DOT]
        b3 == [b2 EXCEPT ![row][king_to] = IF side = WHITE THEN Ch_K ELSE ch_k]
    IN [b3 EXCEPT ![row][rook_to] = IF side = WHITE THEN Ch_R ELSE ch_r]

\* Mutant of move_piece: the source square is not cleared.
move_piece_keeps_source(board, side, buf, p, piece, promote_to, dest_row, dest_col) ==
    LET hint == parse_hints(buf, p, Len(buf) - 1, -1, -1)
        src == find_piece(board, piece, dest_row, dest_col, hint.row, hint.col)
        b1 == IF /\ toupper(piece) = Ch_P
                 /\ src.col # dest_col
                 /\ board[dest_row][dest_col] = DOT
              THEN [board EXCEPT ![src.row][dest_col] = DOT]
              ELSE board
        placed == IF promote_to # NUL
                  THEN (IF side = WHITE THEN toupper(promote_to) ELSE tolower(promote_to))
                  ELSE piece
    IN IF src.found = 0
       THEN [ok |-> 0, board |-> board]
       ELSE [ok |-> 1, board |-> [b1 EXCEPT ![dest_row][dest_col] = placed]]

\* Mutant of move_piece: the square beside the mover is cleared for every piece.
move_piece_clears_beside(board, side, buf, p, piece, promote_to, dest_row, dest_col) ==
    LET hint == parse_hints(buf, p, Len(buf) - 1, -1, -1)
        src == find_piece(board, piece, dest_row, dest_col, hint.row, hint.col)
        b1 == IF /\ src.col # dest_col
                 /\ board[dest_row][dest_col] = DOT
              THEN [board EXCEPT ![src.row][dest_col] = DOT]
              ELSE board
        b2 == [b1 EXCEPT ![src.row][src.col] = DOT]
        placed == IF promote_to # NUL
                  THEN (IF side = WHITE THEN toupper(promote_to) ELSE tolower(promote_to))
                  ELSE piece
    IN IF src.found = 0
       THEN [ok |-> 0, board |-> board]
       ELSE [ok |-> 1, board |-> [b2 EXCEPT ![dest_row][dest_col] = placed]]

\* Mutant of move_piece: the pawn passed by is left on the board.
move_piece_keeps_captured(board, side, buf, p, piece, promote_to, dest_row, dest_col) ==
    LET hint == parse_hints(buf, p, Len(buf) - 1, -1, -1)
        src == find_piece(board, piece, dest_row, dest_col, hint.row, hint.col)
        b2 == [board EXCEPT ![src.row][src.col] = DOT]
        placed == IF promote_to # NUL
                  THEN (IF side = WHITE THEN toupper(promote_to) ELSE tolower(promote_to))
                  ELSE piece
    IN IF src.found = 0
       THEN [ok |-> 0, board |-> board]
       ELSE [ok |-> 1, board |-> [b2 EXCEPT ![dest_row][dest_col] = placed]]

\* Mutant of move_piece: the destination is emptied before the source is
\* looked for.
move_piece_clears_first(board, side, buf, p, piece, promote_to, dest_row, dest_col) ==
    LET hint == parse_hints(buf, p, Len(buf) - 1, -1, -1)
        src == find_piece(board, piece, dest_row, dest_col, hint.row, hint.col)
        b0 == [board EXCEPT ![dest_row][dest_col] = DOT]
        b1 == IF /\ toupper(piece) = Ch_P
                 /\ src.col # dest_col
                 /\ board[dest_row][dest_col] = DOT
              THEN [b0 EXCEPT ![src.row][dest_col] = DOT]
              ELSE b0
        b2 == [b1 EXCEPT ![src.row][src.col] = DOT]
        placed == IF promote_to # NUL
                  THEN (IF side = WHITE THEN toupper(promote_to) ELSE tolower(promote_to))
                  ELSE piece
    IN IF src.found = 0
       THEN [ok |-> 0, board |-> b0]
       ELSE [ok |-> 1, board |-> [b2 EXCEPT ![dest_row][dest_col] = placed]]

\* The part of apply_move after the destination is known: the hints, the
\* search for the source square and the writes to the board.
move_piece(board, side, buf, p, piece, promote_to, dest_row, dest_col) ==
    LET hint == parse_hints(buf, p, Len(buf) - 1, -1, -1)
        src == find_piece(board, piece, dest_row, dest_col, hint.row, hint.col)
        b1 == IF /\ toupper(piece) = Ch_P
                 /\ src.col # dest_col
                 /\ board[dest_row][dest_col] = DOT
              THEN [board EXCEPT ![src.row][dest_col] = DOT]
              ELSE board
        b2 == [b1 EXCEPT ![src.row][src.col] = DOT]
        placed == IF promote_to # NUL
                  THEN (IF side = WHITE THEN toupper(promote_to) ELSE tolower(promote_to))
                  ELSE piece
    IN IF src.found = 0
       THEN [ok |-> 0, board |-> board]
       ELSE [ok |-> 1, board |-> [b2 EXCEPT ![dest_row][dest_col] = placed]]

\* apply_move(board, move, side): the value returned and the board left.
apply_move(board, move, side) ==
    IF move \in KingsideTokens
    THEN [ok |-> 1, board |-> castle(board, side, 7, 6, 5)]
    ELSE IF move \in QueensideTokens
    THEN [ok |-> 1, board |-> castle(board, side, 0, 2, 3)]
    ELSE
    LET copy == strncpy(move, MAX_MOVE_LEN - 1)
        blen == strip_suffix(copy, Len(copy))
        promotes == blen >= 4 /\ copy[blen - 1] = EQUALS
        promote_to == IF promotes THEN copy[blen] ELSE NUL
        \* buf as a string after both truncations; len1 is len before the piece letter
        len1 == IF promotes THEN blen - 2 ELSE blen
        buf == SubSeq(copy, 1, len1)
        first == At(buf, 1)
        named == /\ isupper(first)
                 /\ first # Ch_O
                 /\ first \in {Ch_N, Ch_B, Ch_R, Ch_Q, Ch_K}
        piece == IF named
                 THEN (IF side = WHITE THEN first ELSE tolower(first))
                 ELSE (IF side = WHITE THEN Ch_P ELSE ch_p)
        p == IF named THEN 2 ELSE 1
        len == IF named THEN len1 - 1 ELSE len1
        dest_col == buf[Len(buf) - 1] - ch_a
        dest_row == Ch_8 - buf[Len(buf)]
    IN IF len < 2
       THEN [ok |-> 0, board |-> board]
       ELSE IF dest_row < 0 \/ dest_row >= ROWS \/ dest_col < 0 \/ dest_col >= COLS
       THEN [ok |-> 0, board |-> board]
       ELSE move_piece(board, side, buf, p, piece, promote_to, dest_row, dest_col)

(* ------------------------------------------------------------------ *)
(* choose_move                                                        *)
(* ------------------------------------------------------------------ *)
NULL == <<>>
WORST_FOR_WHITE == -9999999
WORST_FOR_BLACK == 9999999

\* strtok(s, " ") continued at cursor from (counted from 1): the token, or
\* NULL when only delimiters are left, and the cursor for the next call.
strtok(s, from) ==
    IF \A k \in from..Len(s) : s[k] = SPACE
    THEN [tok |-> NULL, next |-> Len(s) + 1]
    ELSE LET \* the first character that is no delimiter
             start == CHOOSE k \in from..Len(s) :
                         s[k] # SPACE /\ \A j \in from..(k - 1) : s[j] = SPACE
             \* the first delimiter after it, or the terminator
             stop == CHOOSE k \in (start + 1)..(Len(s) + 1) :
                         At(s, k) \in {SPACE, NUL}
                         /\ \A j \in (start + 1)..(k - 1) : s[j] # SPACE
         IN [tok |-> SubSeq(s, start, stop - 1),
             next |-> IF stop > Len(s) THEN Len(s) + 1 ELSE stop + 1]

\* What a local variable holds before the function assigns it.
Unset == -1

\* A string or a pointer to one declared and not yet written.
UnsetText == <<Unset>>

\* A board array declared and not yet written.
UnsetBoard == [r \in 0..(ROWS - 1) |-> [c \in 0..(COLS - 1) |-> Unset]]

(* ------------------------------------------------------------------ *)
(* The inputs the invocations are drawn from                          *)
(* ------------------------------------------------------------------ *)
\* The standard initial position, White to move (README example).
FenStart ==
    Str(<<
        "r", "n", "b", "q", "k", "b", "n", "r", "/", "p", "p", "p", "p", "p", "p", "p",
        "p", "/", "8", "/", "8", "/", "8", "/", "8", "/", "P", "P", "P", "P", "P", "P",
        "P", "P", "/", "R", "N", "B", "Q", "K", "B", "N", "R", " ", "w", " ", "K", "Q",
        "k", "q", " ", "-", " ", "0", " ", "1" >>)

\* An open game after 1.e4 e5 2.Nf3 Nc6 3.d4, Black to move.
FenBlackOpen ==
    Str(<<
        "r", "1", "b", "q", "k", "b", "n", "r", "/", "p", "p", "p", "p", "1", "p", "p",
        "p", "/", "2", "n", "5", "/", "4", "p", "3", "/", "3", "P", "P", "3", "/", "5",
        "N", "2", "/", "P", "P", "P", "2", "P", "P", "P", "/", "R", "N", "B", "Q", "K",
        "B", "1", "R", " ", "b", " ", "K", "Q", "k", "q", " ", "-", " ", "1", " ", "3" >>)

\* White to move with castling, a promotion and an en-passant capture at hand.
FenWhiteSpecial ==
    Str(<<
        "r", "3", "k", "2", "r", "/", "1", "P", "3", "p", "p", "p", "/", "8", "/", "3",
        "p", "P", "3", "/", "8", "/", "5", "N", "2", "/", "5", "P", "P", "P", "/", "R",
        "N", "2", "K", "2", "R", " ", "w", " ", "K", "Q", "k", "q", " ", "d", "6", " ",
        "0", " ", "1" >>)

\* The same themes for Black.
FenBlackSpecial ==
    Str(<<
        "r", "n", "2", "k", "2", "r", "/", "5", "p", "p", "p", "/", "5", "n", "2", "/",
        "8", "/", "3", "P", "p", "3", "/", "8", "/", "1", "p", "3", "P", "P", "P", "/",
        "R", "3", "K", "2", "R", " ", "b", " ", "K", "Q", "k", "q", " ", "d", "3", " ",
        "0", " ", "1" >>)

\* A FEN cut off after the piece placement: no side to move.
FenTruncated ==
    Str(<<
        "4", "k", "3", "/", "8", "/", "8", "/", "8", "/", "8", "/", "8", "/", "4", "P",
        "3", "/", "4", "K", "3" >>)

\* A move string without a token.
MovesNone == <<>>

\* A move string of delimiters only.
MovesBlank ==
    Str(<<
        " ", " " >>)

\* The 20 opening moves of the README example.
MovesOpening ==
    Str(<<
        "a", "3", " ", "a", "4", " ", "b", "3", " ", "b", "4", " ", "c", "3", " ", "c",
        "4", " ", "d", "3", " ", "d", "4", " ", "e", "3", " ", "e", "4", " ", "f", "3",
        " ", "f", "4", " ", "g", "3", " ", "g", "4", " ", "h", "3", " ", "h", "4", " ",
        "N", "a", "3", " ", "N", "c", "3", " ", "N", "f", "3", " ", "N", "h", "3" >>)

\* Applicable tokens among unapplicable ones, the first one unapplicable.
MovesMixed ==
    Str(<<
        "K", "e", "4", " ", "e", "4", " ", "Q", "h", "5", " ", " ", "d", "4", " ", "N",
        "f", "3", " ", "j", "9", " ", "e", "3", " ", "O", "-", "O", " ", "d", "4", "+" >>)

\* Tokens none of which can be applied to the positions above.
MovesBad ==
    Str(<<
        "i", "9", " ", "N", "z", "1", " ", "e", " ", "Q", "j", "4" >>)

\* Black replies: captures, a developing move, a check suffix.
MovesBlack ==
    Str(<<
        "Z", "z", " ", "e", "x", "d", "4", " ", "N", "x", "d", "4", " ", "d", "6", " ",
        "N", "f", "6", " ", "B", "b", "4", "+", " ", "e", "x", "d", "3", " ", "b", "1",
        "=", "Q", " ", "N", "d", "5", " ", "O", "-", "O", "-", "O", " ", "N", "c", "x",
        "d", "4" >>)

\* Castling, promotion, en passant and disambiguated knight moves.
MovesSpecial ==
    Str(<<
        "O", "-", "O", "-", "O", " ", "e", "x", "d", "6", " ", "b", "8", "=", "N", " ",
        "b", "x", "a", "8", "=", "Q", " ", "N", "b", "d", "2", " ", "N", "f", "d", "2",
        " ", "N", "d", "2", " ", "O", "-", "O" >>)
\* For White on FenStart: an unapplicable token, then moves that lose a pawn.
MovesLosing ==
    Str(<<
        "K", "e", "4", " ", "b", "3", " ", "d", "3" >>)

\* The number of tokens a long move list has beyond MAX_MOVES.
MaxExtra == 1

\* The string s written n times over.
repeat(s, n) == [k \in 1..(n * Len(s)) |-> s[((k - 1) % Len(s)) + 1]]

\* For White on FenWhiteSpecial: MAX_MOVES - 1 times a losing move, the
\* best move of the list as token number MAX_MOVES, and past the limit
\* MaxExtra times a move that would score far higher.
MovesLong ==
    repeat(Str(<<"h", "3", " ">>), MAX_MOVES - 1)
    \o Str(<<"h", "4">>)
    \o repeat(Str(<<" ", "b", "x", "a", "8", "=", "Q">>), MaxExtra)

FenSet == {FenStart, FenBlackOpen, FenWhiteSpecial, FenBlackSpecial, FenTruncated}
MovesSet == {MovesNone, MovesBlank, MovesOpening, MovesMixed, MovesBad,
             MovesBlack, MovesSpecial, MovesLosing}
TimeBudgets == {0, 3}

\* The (fen, moves) pairs of an invocation.
Invocations ==
    (FenSet \X MovesSet) \cup {<<FenWhiteSpecial, MovesLong>>}

(* ------------------------------------------------------------------ *)
(* The state of the program                                           *)
(* ------------------------------------------------------------------ *)
VARIABLES
    pc,          \* where the program stands: "idle", "parse", "copy", "split", "loop", "done"
    fen,         \* choose_move's parameter fen
    moves,       \* choose_move's parameter moves
    timeout,     \* choose_move's parameter timeout
    board,       \* char board[ROWS][COLS]
    trial,       \* char trial[ROWS][COLS]
    side,        \* char side
    moves_copy,  \* char moves_copy[4096], as a string
    tok,         \* char *tok: the token strtok returned, or NULL
    tok_next,    \* the cursor strtok keeps between calls
    move_list,   \* char move_list[MAX_MOVES][MAX_MOVE_LEN]: the rows filled so far
    num_moves,   \* int num_moves
    best_idx,    \* int best_idx
    best_score,  \* int best_score
    score,       \* int score
    i,           \* int i
    applied,     \* the value apply_move returned in the last iteration
    result,      \* the value choose_move returned (what main prints)
    earlier      \* the first completed invocation: its arguments and its result

\* The state of zoomba (zoomba.c).
VARIABLES
    zpc,         \* where zoomba stands: "idle", "main", "find", "bfs", "exit"
    stdin,       \* what is left to read of the input: [n, sx, sy, tx, ty, grid]
    zn,          \* int n (of zoomba's main and find_path)
    sx, sy,      \* int sx, sy
    tx, ty,      \* int tx, ty
    room,        \* int *room: the cells read, in row-major order (index 0 first)
    came_from,   \* int *came_from
    direction,   \* int *direction
    queue,       \* int *queue
    head, tail,  \* int head, tail
    stdout,      \* what the program has printed, line by line
    status       \* the value main returned

\* The state of rsa (rsa.c).
VARIABLES
    rsa_pc,      \* where rsa stands: "idle", "main", "exit"
    rsa_argv,    \* the command line: [argc, op, e, d, p, q], the numbers as strtoll reads them
    rsa_stdin,   \* the numbers on standard input
    n_val,       \* long long n_val
    phi,         \* long long phi
    rsa_m,       \* long long m
    rsa_result,  \* long long result
    rsa_stderr,  \* what main has written to stderr
    rsa_stdout,  \* what main has printed
    rsa_status   \* the value main returned

\* The state of jabbamaps (jabbamaps.c).
VARIABLES
    jpc,           \* where jabbamaps stands: "idle", "main", "read", "tour", "exit"
    jabba_argv,    \* the command line
    map_disk,      \* the files that can be opened, by name: their lines
    fp,            \* FILE *fp: the lines not read yet
    city_names,    \* char city_names[MAX_CITIES][MAX_NAME]: the rows filled so far
    num_cities,    \* int num_cities
    dist,          \* long long dist[MAX_CITIES][MAX_CITIES]: the entries that are not NO_ROAD
    visited,       \* int visited[MAX_CITIES]
    path,          \* int path[MAX_CITIES]
    edge_costs,    \* long long edge_costs[MAX_CITIES]
    total_cost,    \* long long total_cost
    step,          \* int step
    jabba_stdout,  \* what main has printed
    jabba_stderr,  \* what main has written to stderr
    jabba_status   \* the value main returned

\* The state of neurolib (neurolib.c) and of its caller.
VARIABLES
    mock_index,    \* static int mock_index
    environ,       \* the environment of the process: the variables that are set
    neuro_prompt,  \* the argument of the last call of neuro_ask
    neuro_reply,   \* what the last call of neuro_ask returned
    mock_calls     \* the number of calls of neuro_ask answered without an API key

\* The state of future (future.c).
VARIABLES
    future_pc,      \* where future stands: "idle", "main", "read", "exit"
    future_argv,    \* the command line: [argc, filename, flag, number]
    future_disk,    \* the files that can be opened, by name: their tokens
    heap,           \* the number of doubles malloc can provide
    window,         \* long long window
    future_fp,      \* FILE *fp: the tokens not read yet
    future_buf,     \* double *buf
    count,          \* long long count
    future_pos,     \* long long pos
    sum,            \* double sum
    future_stdout,  \* what main has printed
    future_stderr,  \* what main has written to stderr
    future_status   \* the value main returned

chess_vars == <<pc, fen, moves, timeout, board, trial, side, moves_copy, tok, tok_next,
                move_list, num_moves, best_idx, best_score, score, i, applied, result,
                earlier>>

zoomba_vars == <<zpc, stdin, zn, sx, sy, tx, ty, room, came_from, direction, queue,
                 head, tail, stdout, status>>

rsa_vars == <<rsa_pc, rsa_argv, rsa_stdin, n_val, phi, rsa_m, rsa_result, rsa_stderr,
              rsa_stdout, rsa_status>>

jabba_vars == <<jpc, jabba_argv, map_disk, fp, city_names, num_cities, dist, visited, path,
                edge_costs, total_cost, step, jabba_stdout, jabba_stderr, jabba_status>>

neuro_vars == <<mock_index, environ, neuro_prompt, neuro_reply, mock_calls>>

future_vars == <<future_pc, future_argv, future_disk, heap, window, future_fp, future_buf,
                 count, future_pos, sum, future_stdout, future_stderr, future_status>>

\* The state of the programs other than chess.
others == <<zoomba_vars, rsa_vars, jabba_vars, neuro_vars, future_vars>>

\* The state of the programs other than zoomba.
beside_zoomba == <<chess_vars, rsa_vars, jabba_vars, neuro_vars, future_vars>>

\* The state of the programs other than rsa.
beside_rsa == <<chess_vars, zoomba_vars, jabba_vars, neuro_vars, future_vars>>

\* The state of the programs other than jabbamaps.
beside_jabba == <<chess_vars, zoomba_vars, rsa_vars, neuro_vars, future_vars>>

\* The state of the programs other than the caller of neurolib.
beside_neuro == <<chess_vars, zoomba_vars, rsa_vars, jabba_vars, future_vars>>

\* The state of the programs other than future.
beside_future == <<chess_vars, zoomba_vars, rsa_vars, jabba_vars, neuro_vars>>

vars == <<chess_vars, others>>

\* zoomba before it is started.
zoomba_idle ==
    /\ zpc = "idle"
    /\ stdin = <<>>
    /\ zn = Unset
    /\ sx = Unset /\ sy = Unset
    /\ tx = Unset /\ ty = Unset
    /\ room = <<>>
    /\ came_from = <<>>
    /\ direction = <<>>
    /\ queue = <<>>
    /\ head = Unset /\ tail = Unset
    /\ stdout = <<>>
    /\ status = Unset

\* rsa before it is started.
rsa_idle ==
    /\ rsa_pc = "idle"
    /\ rsa_argv = <<>>
    /\ rsa_stdin = <<>>
    /\ n_val = Unset
    /\ phi = Unset
    /\ rsa_m = Unset
    /\ rsa_result = Unset
    /\ rsa_stderr = <<>>
    /\ rsa_stdout = <<>>
    /\ rsa_status = Unset

\* jabbamaps before it is started.
jabba_idle ==
    /\ jpc = "idle"
    /\ jabba_argv = <<>>
    /\ map_disk = <<>>
    /\ fp = <<>>
    /\ city_names = <<>>
    /\ num_cities = 0
    /\ dist = <<>>
    /\ visited = <<>>
    /\ path = <<>>
    /\ edge_costs = <<>>
    /\ total_cost = Unset
    /\ step = Unset
    /\ jabba_stdout = <<>>
    /\ jabba_stderr = <<>>
    /\ jabba_status = Unset

\* neurolib before the first call of neuro_ask.
neuro_idle ==
    /\ mock_index = 0
    /\ environ = <<>>
    /\ neuro_prompt = ""
    /\ neuro_reply = <<>>
    /\ mock_calls = 0

\* future before it is started.
future_idle ==
    /\ future_pc = "idle"
    /\ future_argv = <<>>
    /\ future_disk = <<>>
    /\ heap = 0
    /\ window = Unset
    /\ future_fp = <<>>
    /\ future_buf = <<>>
    /\ count = Unset
    /\ future_pos = Unset
    /\ sum = Unset
    /\ future_stdout = <<>>
    /\ future_stderr = <<>>
    /\ future_status = Unset

\* The programs other than chess are not started.
others_idle == zoomba_idle /\ rsa_idle /\ jabba_idle /\ neuro_idle /\ future_idle

NoCall == [fen |-> <<>>, moves |-> <<>>, timeout |-> Unset, result |-> Unset]

\* Mutant of initial_best_idx: no move is the best one before the loop.
initial_best_idx_none == 0 - 1

\* int best_idx = 0;
initial_best_idx == 0

\* The locals of choose_move as its declarations leave them.
locals_at_entry ==
    /\ board' = UnsetBoard
    /\ trial' = UnsetBoard
    /\ side' = Unset
    /\ moves_copy' = UnsetText
    /\ tok' = UnsetText
    /\ tok_next' = Unset
    /\ move_list' = <<>>
    /\ num_moves' = 0
    /\ best_idx' = initial_best_idx
    /\ best_score' = Unset
    /\ score' = Unset
    /\ i' = Unset
    /\ applied' = Unset

\* chess before choose_move is called.
chess_idle ==
    /\ pc = "idle"
    /\ fen = <<>>
    /\ moves = <<>>
    /\ timeout = 0
    /\ board = UnsetBoard
    /\ trial = UnsetBoard
    /\ side = Unset
    /\ moves_copy = UnsetText
    /\ tok = UnsetText
    /\ tok_next = Unset
    /\ move_list = <<>>
    /\ num_moves = 0
    /\ best_idx = initial_best_idx
    /\ best_score = Unset
    /\ score = Unset
    /\ i = Unset
    /\ applied = Unset
    /\ result = Unset
    /\ earlier = NoCall

Init == chess_idle /\ others_idle

\* choose_move(fen, moves, timeout) is entered with arguments drawn from S.
invoke(S) ==
    /\ \E in \in S, t \in TimeBudgets :
          /\ fen' = in[1]
          /\ moves' = in[2]
          /\ timeout' = t
    /\ locals_at_entry
    /\ result' = Unset
    /\ pc' = "parse"
    /\ UNCHANGED earlier
    /\ UNCHANGED others

\* main calls choose_move(argv[1], argv[2], atoi(argv[3])).
Call ==
    /\ pc = "idle"
    /\ invoke(Invocations)

\* parse_fen(fen, board, &side);
ParseFen ==
    /\ pc = "parse"
    /\ board' = parse_fen(fen).board
    /\ side' = parse_fen(fen).side
    /\ pc' = "copy"
    /\ UNCHANGED <<fen, moves, timeout, trial, moves_copy, tok, tok_next, move_list,
                   num_moves, best_idx, best_score, score, i, applied, result, earlier>>
    /\ UNCHANGED others

\* strncpy(moves_copy, ...); moves_copy[4095] = 0; tok = strtok(moves_copy, " ");
CopyMoves ==
    /\ pc = "copy"
    /\ moves_copy' = strncpy(moves, MOVES_COPY_SIZE - 1)
    /\ tok' = strtok(moves_copy', 1).tok
    /\ tok_next' = strtok(moves_copy', 1).next
    /\ pc' = "split"
    /\ UNCHANGED <<fen, moves, timeout, board, trial, side, move_list, num_moves,
                   best_idx, best_score, score, i, applied, result, earlier>>
    /\ UNCHANGED others

\* Mutant of more_tokens: the bound is tested off by one.
more_tokens_off_by_one(t, n) == t # NULL /\ n <= MAX_MOVES

\* The condition of the tokenising while loop.
more_tokens(t, n) == t # NULL /\ n < MAX_MOVES

\* One iteration of the tokenising while loop.
SplitStep ==
    /\ pc = "split"
    /\ more_tokens(tok, num_moves)
    /\ move_list' = Append(move_list, strncpy(tok, MAX_MOVE_LEN - 1))
    /\ num_moves' = num_moves + 1
    /\ tok' = strtok(moves_copy, tok_next).tok
    /\ tok_next' = strtok(moves_copy, tok_next).next
    /\ UNCHANGED <<pc, fen, moves, timeout, board, trial, side, moves_copy,
                   best_idx, best_score, score, i, applied, result, earlier>>
    /\ UNCHANGED others

\* The value choose_move returns, and the first completed invocation kept.
return(value) ==
    /\ result' = value
    /\ earlier' = IF earlier = NoCall
                  THEN [fen |-> fen, moves |-> moves, timeout |-> timeout, result |-> value]
                  ELSE earlier
    /\ pc' = "done"

\* The tokenising loop ends with no token: return 0.
ReturnNoMoves ==
    /\ pc = "split"
    /\ ~more_tokens(tok, num_moves)
    /\ num_moves = 0
    /\ return(0)
    /\ UNCHANGED <<fen, moves, timeout, board, trial, side, moves_copy, tok, tok_next,
                   move_list, num_moves, best_idx, best_score, score, i, applied>>
    /\ UNCHANGED others

\* The tokenising loop ends with tokens: best_score = ...; i = 0.
StartLoop ==
    /\ pc = "split"
    /\ ~more_tokens(tok, num_moves)
    /\ num_moves # 0
    /\ best_score' = IF side = WHITE THEN WORST_FOR_WHITE ELSE WORST_FOR_BLACK
    /\ i' = 0
    /\ pc' = "loop"
    /\ UNCHANGED <<fen, moves, timeout, board, trial, side, moves_copy, tok, tok_next,
                   move_list, num_moves, best_idx, score, applied, result, earlier>>
    /\ UNCHANGED others

\* Mutant of better: an equal score replaces the best one too.
better_or_equal(s, best, sd) == IF sd = WHITE THEN s >= best ELSE s <= best

\* Whether the score of the candidate replaces the best one.
better(s, best, sd) == IF sd = WHITE THEN s > best ELSE s < best

\* Mutant of memcpy: the trial board is copied the first time only.
memcpy_once(dst, src) == IF dst = UnsetBoard THEN src ELSE dst

\* memcpy(dst, src, sizeof(dst)): what dst holds afterwards.
memcpy(dst, src) == src

\* Mutant of more_candidates: the loop ends at a token that failed.
more_candidates_until_failure(idx, n, budget) == idx < n /\ applied # 0

\* Mutant of more_candidates: the loop also ends when the budget is used up.
more_candidates_in_budget(idx, n, budget) == idx < n /\ idx < budget

\* The condition of the candidate loop (the time budget is not consulted).
more_candidates(idx, n, budget) == idx < n

\* Mutant of skipped: a token that failed is evaluated like the others.
never_skipped(ok) == FALSE

\* if (!apply_move(...)) continue;
skipped(ok) == ok = 0

\* One iteration of the candidate loop, i++ included.
Iterate ==
    /\ pc = "loop"
    /\ more_candidates(i, num_moves, timeout)
    /\ LET am == apply_move(memcpy(trial, board), move_list[i + 1], side) IN
          /\ trial' = am.board
          /\ applied' = am.ok
          /\ IF skipped(am.ok)
             THEN UNCHANGED <<score, best_score, best_idx>>
             ELSE /\ score' = evaluate(am.board)
                  /\ IF better(score', best_score, side)
                     THEN best_score' = score' /\ best_idx' = i
                     ELSE UNCHANGED <<best_score, best_idx>>
    /\ i' = i + 1
    /\ UNCHANGED <<pc, fen, moves, timeout, board, side, moves_copy, tok, tok_next,
                   move_list, num_moves, result, earlier>>
    /\ UNCHANGED others

\* The candidate loop ends: return best_idx.
Return ==
    /\ pc = "loop"
    /\ ~more_candidates(i, num_moves, timeout)
    /\ return(best_idx)
    /\ UNCHANGED <<fen, moves, timeout, board, trial, side, moves_copy, tok, tok_next,
                   move_list, num_moves, best_idx, best_score, score, i, applied>>
    /\ UNCHANGED others

Next ==
    \/ Call
    \/ ParseFen
    \/ CopyMoves
    \/ SplitStep
    \/ ReturnNoMoves
    \/ StartLoop
    \/ Iterate
    \/ Return

\* One run of the program.
Spec == Init /\ [][Next]_vars

(* ------------------------------------------------------------------ *)
(* choose_move called again and again by a host (the exported entry)  *)
(* ------------------------------------------------------------------ *)
RepeatInvocations ==
    { <<FenStart, MovesOpening>>, <<FenStart, MovesBad>>, <<FenStart, MovesBlank>>,
      <<FenStart, MovesMixed>>, <<FenBlackOpen, MovesBlack>>,
      <<FenBlackOpen, MovesMixed>>, <<FenWhiteSpecial, MovesSpecial>>,
      <<FenBlackSpecial, MovesBlack>> }

\* The host calls choose_move, for the first time or after it returned.
Recall ==
    /\ pc \in {"idle", "done"}
    /\ invoke(RepeatInvocations)

NextAgain ==
    \/ Recall
    \/ ParseFen
    \/ CopyMoves
    \/ SplitStep
    \/ ReturnNoMoves
    \/ StartLoop
    \/ Iterate
    \/ Return

SpecAgain == Init /\ [][NextAgain]_vars

(* ------------------------------------------------------------------ *)
(* apply_move on one token: the program at the candidate loop of a    *)
(* one-token move list                                                *)
(* ------------------------------------------------------------------ *)
\* Two White rooks on the a-file.
FenRooks ==
    Str(<<
        "4", "k", "3", "/", "8", "/", "8", "/", "R", "7", "/", "8", "/", "8", "/", "8",
        "/", "R", "3", "K", "3", " ", "w", " ", "-", " ", "-", " ", "0", " ", "1" >>)

\* Several sliding pieces of both colours, White to move.
FenCrowdedWhite ==
    Str(<<
        "q", "2", "q", "k", "3", "/", "8", "/", "2", "B", "1", "B", "3", "/", "8", "/",
        "R", "2", "Q", "3", "R", "/", "8", "/", "2", "b", "1", "b", "3", "/", "Q", "3",
        "K", "2", "Q", " ", "w", " ", "-", " ", "-", " ", "0", " ", "1" >>)

\* The same board, Black to move.
FenCrowdedBlack ==
    Str(<<
        "q", "2", "q", "k", "3", "/", "8", "/", "2", "B", "1", "B", "3", "/", "8", "/",
        "R", "2", "Q", "3", "R", "/", "8", "/", "2", "b", "1", "b", "3", "/", "Q", "3",
        "K", "2", "Q", " ", "b", " ", "-", " ", "-", " ", "0", " ", "1" >>)

\* A White pawn on e7 before an empty e8, a Black rook on d8.
FenPromotion ==
    Str(<<
        "3", "r", "4", "/", "4", "P", "3", "/", "8", "/", "8", "/", "8", "/", "8", "/",
        "8", "/", "4", "K", "2", "k", " ", "w", " ", "-", " ", "-", " ", "0", " ", "1" >>)

ApplyFens == FenSet \cup {FenRooks, FenCrowdedWhite, FenCrowdedBlack, FenPromotion}

Files == ch_a..ch_h
Ranks == Ch_1..Ch_8
PieceParts == {<<>>} \cup {<<Ord(l)>> : l \in {"N", "B", "R", "Q", "K"}}
HintParts == {<<>>} \cup {<<f>> : f \in Files} \cup {<<r>> : r \in Ranks}
CaptureParts == {<<>>, <<ch_x>>}
DestParts == {<<f, r>> : f \in Files, r \in Ranks}
PromotionParts == {Str(<<"=", "Q">>), Str(<<"=", "N">>), Str(<<"=", "r">>)}

\* piece letter, disambiguation, capture marker, destination
PlainTokens ==
    {p \o h \o x \o d : p \in PieceParts, h \in HintParts, x \in CaptureParts,
                        d \in DestParts}

\* pawn moves to the first or last rank with a promotion suffix
PromotionTokens ==
    {h \o x \o <<f, r>> \o q :
        h \in {<<>>} \cup {<<g>> : g \in Files}, x \in CaptureParts, f \in Files,
        r \in {Ch_1, Ch_8}, q \in PromotionParts}

\* castling tokens, tokens with suffixes, and tokens that are no moves
OddTokens ==
    KingsideTokens \cup QueensideTokens \cup
    { Str(<<"O", "-", "O", "+", "+">>), Str(<<"O", "-", "O", "-">>),
      Str(<<"e", "4", "+">>), Str(<<"N", "f", "3", "#">>), Str(<<"e", "x", "d", "6", "+", "#">>),
      Str(<<"b", "8", "=", "Q", "+">>), Str(<<"e">>), Str(<<"N">>), Str(<<"N", "f">>),
      Str(<<"N", "3">>), Str(<<"+">>), Str(<<"i", "9">>), Str(<<"e", "9">>),
      Str(<<"a", "0">>), Str(<<"Q", "j", "4">>), Str(<<"=", "Q">>), Str(<<"N", "e", "=", "Q">>),
      Str(<<"N", "b", "1", "d", "2">>), Str(<<"R", "a", "5", "x", "a", "3">>),
      Str(<<"K", "e", "1", "=", "Q">>), Str(<<"K", "e", "8", "=", "N">>),
      Str(<<"N", "c", "3", "=", "Q">>), Str(<<"P", "e", "4">>), Str(<<"n", "f", "3">>), Str(<<"O", "e", "4">>),
      Str(<<"N", "a", "b", "c", "d", "e", "f", "g", "h", "1", "2", "3", "4", "d", "2", "x">>) }

ApplyTokens == PlainTokens \cup PromotionTokens \cup OddTokens

\* The program as StartLoop leaves it when the move string is the token t.
\* Each FEN with what parse_fen makes of it.
ApplyPositions == {[fen |-> f, parsed |-> parse_fen(f)] : f \in ApplyFens}

InitLoop ==
    \E pos \in ApplyPositions, t \in ApplyTokens :
            /\ pc = "loop"
            /\ fen = pos.fen
            /\ moves = t
            /\ timeout = 0
            /\ board = pos.parsed.board
            /\ trial = UnsetBoard
            /\ side = pos.parsed.side
            /\ moves_copy = t
            /\ tok = NULL
            /\ tok_next = Len(t) + 1
            /\ move_list = <<strncpy(t, MAX_MOVE_LEN - 1)>>
            /\ num_moves = 1
            /\ best_idx = initial_best_idx
            /\ best_score = IF side = WHITE THEN WORST_FOR_WHITE ELSE WORST_FOR_BLACK
            /\ score = Unset
            /\ i = 0
            /\ applied = Unset
            /\ result = Unset
            /\ earlier = NoCall
            /\ others_idle

NextLoop ==
    \/ Iterate
    \/ Return

SpecApply == InitLoop /\ [][NextLoop]_vars

(* ------------------------------------------------------------------ *)
(* Properties of choose_move                                          *)
(* ------------------------------------------------------------------ *)
BLACK == ch_b

\* For every index of the list: whether the token applies to the decoded
\* board and the score of the position it leaves.
Outcomes ==
    { LET am == apply_move(board, move_list[k + 1], side)
      IN [idx |-> k, ok |-> am.ok, score |-> IF am.ok = 1 THEN evaluate(am.board) ELSE 0]
      : k \in 0..(Len(move_list) - 1) }

AppliedOutcomes == {o \in Outcomes : o.ok = 1}

\* Among the outcomes A, o is at least as good as every one for the side.
IsBest(A, o, sd) ==
    \A q \in A : IF sd = WHITE THEN q.score <= o.score ELSE q.score >= o.score

\* r is the lowest index among those of the best outcomes of A.
LowestBest(A, r, sd) ==
    \E o \in A :
        /\ o.idx = r
        /\ IsBest(A, o, sd)
        /\ \A q \in A : q.score = o.score => o.idx <= q.idx

\* C1: with White or Black to move and at least one token applied, the index
\* returned is that of an applied token whose score is the maximum (White) or
\* the minimum (Black) over the applied tokens, and the lowest such index.
C1_BestLowestIndex ==
    (pc = "done" /\ side \in {WHITE, BLACK}) =>
        LET A == AppliedOutcomes IN A # {} => LowestBest(A, result, side)

\* Some outcome of A has the index r, the same score as a later one, and
\* a different score than an earlier one.
TiedAfterWorse(A, r) ==
    \E o \in A, q \in A, w \in A :
        /\ o.idx = r /\ q.idx > o.idx /\ q.score = o.score
        /\ w.idx < o.idx /\ w.score # o.score

\* A run for Black ended where the best score is shared by several applied
\* tokens and a worse applied token stands before them.
C1_Witness ==
    /\ pc = "done"
    /\ side = BLACK
    /\ result > 0
    /\ Len(move_list) < MAX_MOVES
    /\ TiedAfterWorse(AppliedOutcomes, result)

HasIndex(A, r) == \E o \in A : o.idx = r

\* C2: when some token applies, the index returned is never that of a token
\* for which apply_move failed.
C2_NeverUnapplied ==
    pc = "done" => LET A == AppliedOutcomes IN A # {} => HasIndex(A, result)

\* The first outcome of A failed, and so did one after an applied one.
FailuresAround(A) ==
    /\ \E o \in A : o.idx = 0 /\ o.ok = 0
    /\ \E o \in A, q \in A : o.ok = 0 /\ q.ok = 1 /\ o.idx > q.idx

\* A run ended where the token at index 0 failed, a later one failed too and
\* others applied.
C2_Witness ==
    /\ pc = "done"
    /\ Len(move_list) < MAX_MOVES
    /\ FailuresAround(Outcomes)

\* The move string holds no token: nothing but delimiters.
NoToken == \A k \in 1..Len(moves) : moves[k] = SPACE

\* C3: the index returned is 0 when the move string holds no token and when
\* apply_move fails for every token.
C3_DefaultZero ==
    (pc = "done" /\ (NoToken \/ AppliedOutcomes = {})) => result = 0

\* A run ended where the list has several tokens and every one of them failed.
C3_Witness ==
    /\ pc = "done"
    /\ ~NoToken
    /\ Len(move_list) >= 2
    /\ Len(move_list) < MAX_MOVES
    /\ AppliedOutcomes = {}
    /\ result = 0

\* The places of the move string where a token starts.
TokenStarts ==
    {k \in 1..Len(moves) : moves[k] # SPACE /\ (k = 1 \/ moves[k - 1] = SPACE)}

TokenCount == Cardinality(TokenStarts)

\* The n-th token of the move string, n counted from 1.
NthToken(n) ==
    LET start == CHOOSE k \in TokenStarts :
                    Cardinality({j \in TokenStarts : j < k}) = n - 1
        stop == CHOOSE k \in start..Len(moves) :
                    /\ \A j \in start..k : moves[j] # SPACE
                    /\ (k = Len(moves) \/ moves[k + 1] = SPACE)
    IN SubSeq(moves, start, stop)

Min(a, b) == IF a < b THEN a ELSE b

\* C4: the list of candidates never holds more than the first MAX_MOVES
\* tokens, the loop index never passes them, and for a list of n >= 1 tokens
\* the index returned is below min(n, MAX_MOVES).
C4_WithinFirstTokens ==
    /\ Len(move_list) = num_moves
    /\ num_moves <= Min(TokenCount, MAX_MOVES)
    /\ pc = "loop" =>
          /\ num_moves = Min(TokenCount, MAX_MOVES)
          /\ i \in 0..num_moves
    /\ pc = "done" /\ TokenCount >= 1 =>
          /\ num_moves = Min(TokenCount, MAX_MOVES)
          /\ i = num_moves
          /\ move_list[num_moves] = strncpy(NthToken(num_moves), MAX_MOVE_LEN - 1)
          /\ result \in 0..(num_moves - 1)

\* A run ended on a list of more than MAX_MOVES tokens, the last of the first
\* MAX_MOVES being returned.
C4_Witness ==
    /\ pc = "done"
    /\ TokenCount > MAX_MOVES
    /\ result = MAX_MOVES - 1

\* C5: an invocation with the FEN and the move list of an earlier one returns
\* the index the earlier one returned, whatever the two time budgets and
\* whatever was invoked in between.
C5_SameInputsSameIndex ==
    (pc = "done" /\ earlier.fen = fen /\ earlier.moves = moves) =>
        result = earlier.result

\* A later invocation ended that repeats the arguments of the first one but
\* for the time budget, the index returned being other than the default.
C5_Witness ==
    /\ pc = "done"
    /\ earlier.fen = fen
    /\ earlier.moves = moves
    /\ earlier.timeout # timeout
    /\ result = earlier.result
    /\ result > 0

\* C6: for the standard initial position and the 20 opening moves of the
\* README example the index returned is 1 (a4).
C6_ReadmeExample ==
    (pc = "done" /\ fen = FenStart /\ moves = MovesOpening) => result = 1

\* The run of the README example ended, all 20 tokens tried.
C6_Witness ==
    /\ pc = "done"
    /\ fen = FenStart
    /\ moves = MovesOpening
    /\ i = 20
    /\ result = 1

\* C7: from the moment it is decoded the board is what parse_fen makes of the
\* FEN, and after every iteration the trial board is what apply_move makes of
\* that very board and the token just tried, the score of an applied token
\* being the evaluation of that trial board: nothing of the tokens tried
\* before is left in it.
C7_BoardNeverModified ==
    /\ pc \in {"copy", "split", "loop", "done"} =>
          /\ board = parse_fen(fen).board
          /\ side = parse_fen(fen).side
    /\ (pc \in {"loop", "done"} /\ i # Unset /\ i >= 1) =>
          LET am == apply_move(parse_fen(fen).board, move_list[i], parse_fen(fen).side)
          IN /\ applied = am.ok
             /\ trial = am.board
             /\ applied = 1 => score = evaluate(am.board)

\* In the loop, a token was applied after an earlier one had changed the
\* trial board and another had failed.
C7_Witness ==
    /\ pc = "loop"
    /\ i >= 3
    /\ applied = 1
    /\ trial # board
    /\ apply_move(board, move_list[i - 1], side).ok = 0
    /\ apply_move(board, move_list[i - 2], side).ok = 1
    /\ apply_move(board, move_list[i - 2], side).board # board

(* ------------------------------------------------------------------ *)
(* Properties of apply_move (the state after the iteration that       *)
(* tried the token: board is the board before, trial the board after) *)
(* ------------------------------------------------------------------ *)
Squares == (0..(ROWS - 1)) \X (0..(COLS - 1))

\* The squares on which two boards differ.
Changed(before, after) == {sq \in Squares : before[sq[1]][sq[2]] # after[sq[1]][sq[2]]}

\* The one token of the list has just been tried.
Tried(t) == i = 1 /\ move_list = <<t>>

\* C8: on the standard initial position with White to move, "e4" succeeds
\* and changes exactly e2 (emptied) and e4 (a White pawn), and "Nf3" succeeds
\* and changes exactly g1 (emptied) and f3 (a White knight).
C8_OpeningMoves ==
    /\ (fen = FenStart /\ Tried(Str(<<"e", "4">>))) =>
          /\ applied = 1
          /\ Changed(board, trial) = {<<6, 4>>, <<4, 4>>}
          /\ trial[6][4] = DOT
          /\ trial[4][4] = Ch_P
    /\ (fen = FenStart /\ Tried(Str(<<"N", "f", "3">>))) =>
          /\ applied = 1
          /\ Changed(board, trial) = {<<7, 6>>, <<5, 5>>}
          /\ trial[7][6] = DOT
          /\ trial[5][5] = Ch_N

\* "e4" has been tried on the initial position, where e2 holds a White pawn
\* and e3 and e4 are empty, and applied.
C8_Witness ==
    /\ fen = FenStart
    /\ Tried(Str(<<"e", "4">>))
    /\ side = WHITE
    /\ board[6][4] = Ch_P /\ board[5][4] = DOT /\ board[4][4] = DOT
    /\ applied = 1
    /\ trial[4][4] = Ch_P

\* The back rank after castling, for the rook coming from column rook_from,
\* the king going to king_to and the rook to rook_to; all else unchanged.
Castled(rook_from, king_to, rook_to) ==
    LET row == IF side = WHITE THEN 7 ELSE 0 IN
    /\ trial[row][4] = DOT
    /\ trial[row][rook_from] = DOT
    /\ trial[row][king_to] = (IF side = WHITE THEN Ch_K ELSE ch_k)
    /\ trial[row][rook_to] = (IF side = WHITE THEN Ch_R ELSE ch_r)
    /\ \A sq \in Squares \ {<<row, 4>>, <<row, rook_from>>, <<row, king_to>>,
                            <<row, rook_to>>} :
          trial[sq[1]][sq[2]] = board[sq[1]][sq[2]]

\* C9: a castling token always applies, whatever the board holds, and leaves
\* the mover's back rank with e and h empty, the king on g and the rook on f
\* (O-O), or e and a empty, the king on c and the rook on d (O-O-O), the
\* other 60 squares being unchanged.
C9_Castling ==
    (i = 1 /\ Len(move_list) = 1 /\ side \in {WHITE, BLACK}) =>
        /\ move_list[1] \in KingsideTokens => applied = 1 /\ Castled(7, 6, 5)
        /\ move_list[1] \in QueensideTokens => applied = 1 /\ Castled(0, 2, 3)

\* O-O has been tried for White on a board without a rook on h1, and a rook
\* stands on f1 all the same.
C9_Witness ==
    /\ i = 1
    /\ Len(move_list) = 1
    /\ move_list[1] \in KingsideTokens
    /\ side = WHITE
    /\ board[7][7] = DOT
    /\ applied = 1
    /\ trial[7][5] = Ch_R
    /\ trial[7][6] = Ch_K

\* A token without its promotion suffix.
Core(t) == IF Len(t) >= 4 /\ t[Len(t) - 1] = EQUALS THEN SubSeq(t, 1, Len(t) - 2) ELSE t

NamesPiece(t) == Len(t) >= 1 /\ t[1] \in {Ch_N, Ch_B, Ch_R, Ch_Q, Ch_K}

\* What follows the piece letter: disambiguation, capture marker, destination.
Rest(t) == IF NamesPiece(Core(t)) THEN Tail(Core(t)) ELSE Core(t)

\* The token is a piece letter or none, one disambiguating character, a
\* capture marker or none, and a destination square.
OneHint(t) ==
    LET rest == Rest(t) IN
    /\ Len(rest) = 3 \/ (Len(rest) = 4 /\ rest[2] = ch_x)
    /\ rest[1] \in Files \cup Ranks
    /\ rest[Len(rest) - 1] \in Files
    /\ rest[Len(rest)] \in Ranks

\* The piece the token moves for the side to move.
Mover(t) ==
    IF NamesPiece(Core(t))
    THEN (IF side = WHITE THEN t[1] ELSE tolower(t[1]))
    ELSE (IF side = WHITE THEN Ch_P ELSE ch_p)

\* The move made is one of the mover's piece from (r, c) to (dr, dc): the
\* piece stood there, the square is empty now unless it is the destination,
\* and but for the square beside it on the destination file nothing else
\* changed.
MovedFrom(piece, r, c, dr, dc) ==
    /\ board[r][c] = piece
    /\ trial[r][c] = DOT \/ (r = dr /\ c = dc)
    /\ Changed(board, trial) \subseteq {<<r, c>>, <<dr, dc>>, <<r, dc>>}

\* C10: when the token carries a file hint the move is made from a square of
\* that file, and when it carries a rank hint from a square of that rank;
\* "Nbd2" with White knights on b1 and f3 moves the one on b1.
C10_HintedSource ==
    /\ (i = 1 /\ Len(move_list) = 1 /\ applied = 1 /\ OneHint(move_list[1])) =>
          LET rest == Rest(move_list[1])
              piece == Mover(move_list[1])
              dr == Ch_8 - rest[Len(rest)]
              dc == rest[Len(rest) - 1] - ch_a
          IN IF rest[1] \in Files
             THEN \E r \in 0..(ROWS - 1) : MovedFrom(piece, r, rest[1] - ch_a, dr, dc)
             ELSE \E c \in 0..(COLS - 1) : MovedFrom(piece, Ch_8 - rest[1], c, dr, dc)
    /\ (fen = FenWhiteSpecial /\ Tried(Str(<<"N", "b", "d", "2">>))) =>
          /\ applied = 1
          /\ trial[7][1] = DOT
          /\ trial[5][5] = Ch_N
          /\ trial[6][3] = Ch_N

\* "Nbd2" has been applied on a board where the knight on f3, which comes
\* first in row-major order, reaches d2 as the knight on b1 does.
C10_Witness ==
    /\ Tried(Str(<<"N", "b", "d", "2">>))
    /\ side = WHITE
    /\ board[5][5] = Ch_N /\ board[7][1] = Ch_N /\ board[6][3] = DOT
    /\ applied = 1
    /\ trial[7][1] = DOT
    /\ trial[5][5] = Ch_N

\* The token ends in "=X", X the letter of a piece other than a pawn.
EndsInPromotion(t) ==
    /\ Len(t) >= 2
    /\ t[Len(t) - 1] = EQUALS
    /\ toupper(t[Len(t)]) \in {Ch_Q, Ch_R, Ch_B, Ch_N}

\* The letter X of side sd: uppercase for White, lowercase for Black.
Coloured(X, sd) == IF sd = WHITE THEN toupper(X) ELSE tolower(X)

\* C11: a token ending in "=X" that applies for White or Black leaves the
\* square the mover came from empty and the destination holding X in the
\* colour of the side to move; "e8=Q" with a White pawn on e7 and e8 empty
\* leaves a White queen on e8 and e7 empty.
C11_Promotion ==
    /\ (i = 1 /\ Len(move_list) = 1 /\ side \in {WHITE, BLACK} /\ applied = 1
           /\ EndsInPromotion(move_list[1])) =>
          LET t == move_list[1]
              rest == Rest(t)
              dr == Ch_8 - rest[Len(rest)]
              dc == rest[Len(rest) - 1] - ch_a
          IN /\ trial[dr][dc] = Coloured(t[Len(t)], side)
             /\ \E sq \in Squares :
                   /\ board[sq[1]][sq[2]] = Mover(t)
                   /\ trial[sq[1]][sq[2]] = DOT
                   /\ Changed(board, trial) \subseteq {sq, <<dr, dc>>, <<sq[1], dc>>}
    /\ (fen = FenPromotion /\ Tried(Str(<<"e", "8", "=", "Q">>))) =>
          /\ applied = 1
          /\ trial[0][4] = Ch_Q
          /\ trial[1][4] = DOT

\* A pawn token: no piece letter, a file hint or none, a capture marker or
\* none, a destination square, a promotion suffix or none.
PawnToken(t) ==
    LET rest == Core(t) IN
    /\ Len(rest) \in 2..4
    /\ rest[Len(rest) - 1] \in Files
    /\ rest[Len(rest)] \in Ranks
    /\ Len(rest) = 3 => rest[1] \in Files \cup {ch_x}
    /\ Len(rest) = 4 => rest[1] \in Files /\ rest[2] = ch_x

\* The square find_piece names as the source of the pawn token t.
PawnSource(t) ==
    LET rest == Core(t)
        file_hint == IF Len(rest) >= 3 /\ rest[1] \in Files THEN rest[1] - ch_a ELSE -1
    IN find_piece(board, Mover(t), Ch_8 - rest[Len(rest)], rest[Len(rest) - 1] - ch_a,
                  -1, file_hint)

\* The pawn token has moved a pawn diagonally onto an empty square: the
\* source and the square beside it on the destination file are empty, and
\* the destination holds the piece given.
EnPassant(t, placed) ==
    LET rest == Core(t)
        dr == Ch_8 - rest[Len(rest)]
        dc == rest[Len(rest) - 1] - ch_a
        src == PawnSource(t)
    IN (src.found = 1 /\ src.col # dc /\ board[dr][dc] = DOT) =>
          /\ trial[src.row][src.col] = DOT
          /\ trial[src.row][dc] = DOT
          /\ trial[dr][dc] = placed
          /\ Changed(board, trial) \subseteq {<<src.row, src.col>>, <<src.row, dc>>, <<dr, dc>>}

\* The token carries the capture marker.
Captures(t) == \E k \in 1..Len(t) : t[k] = ch_x

\* C12 as stated, for the tokens written as captures: a pawn token that
\* moves a pawn diagonally onto an empty square leaves the source and the
\* square on the source's rank and the destination's file empty and the
\* moving pawn on the destination.
C12_EnPassantPawnPlaced ==
    (i = 1 /\ Len(move_list) = 1 /\ side \in {WHITE, BLACK} /\ applied = 1
       /\ PawnToken(move_list[1]) /\ Captures(move_list[1])) =>
        EnPassant(move_list[1], Mover(move_list[1]))

\* C12 amended: as stated, but the destination holds the moving pawn only
\* when the token has no promotion suffix; with a suffix "=X" it holds X in
\* the colour of the mover. "exd6" with a White pawn on e5 and a Black pawn
\* on d5 leaves e5 and d5 empty and a White pawn on d6.
C12_EnPassant ==
    /\ (i = 1 /\ Len(move_list) = 1 /\ side \in {WHITE, BLACK} /\ applied = 1
           /\ PawnToken(move_list[1])) =>
          LET t == move_list[1] IN
          EnPassant(t, IF Core(t) # t THEN Coloured(t[Len(t)], side) ELSE Mover(t))
    /\ (fen = FenWhiteSpecial /\ Tried(Str(<<"e", "x", "d", "6">>))) =>
          /\ applied = 1
          /\ trial[3][4] = DOT
          /\ trial[3][3] = DOT
          /\ trial[2][3] = Ch_P

\* "exd6" has been applied with a White pawn on e5, a Black pawn on d5 and d6
\* empty, and the Black pawn is gone.
C12_Witness ==
    /\ Tried(Str(<<"e", "x", "d", "6">>))
    /\ side = WHITE
    /\ board[3][4] = Ch_P /\ board[3][3] = ch_p /\ board[2][3] = DOT
    /\ applied = 1
    /\ trial[3][3] = DOT
    /\ trial[2][3] = Ch_P

(* ------------------------------------------------------------------ *)
(* parse_fen: choose_move called with FEN strings built from ranks    *)
(* that fill eight columns, and from ranks that do not                *)
(* ------------------------------------------------------------------ *)
\* Ranks of a placement field, each filling eight columns.
RankParts ==
    { Str(<<
        "r", "n", "b", "q", "k", "b", "n", "r" >>),
      Str(<<
        "8" >>),
      Str(<<
        "R", "N", "B", "Q", "K", "B", "N", "R" >>),
      Str(<<
        "4", "P", "3" >>),
      Str(<<
        "1", "p", "2", "P", "1", "n", "1" >>),
      Str(<<
        "2", "b", "1", "B", "1", "Q", "1" >>),
      Str(<<
        "k", "6", "K" >>),
      Str(<<
        "3", "q", "1", "r", "2" >>) }

\* What follows the placement field: the side to move and the other fields.
TailParts == { Str(<<
               " ", "w", " ", "K", "Q", "k", "q", " ", "-", " ", "0", " ", "1" >>),
               Str(<<
               " ", "b", " ", "-", " ", "-", " ", "1", "2", " ", "4", "0" >>) }

\* Eight ranks from three of RankParts, and a tail.
ValidFens ==
    { a \o <<SLASH>> \o b \o <<SLASH>> \o c \o <<SLASH>> \o a \o <<SLASH>> \o
      b \o <<SLASH>> \o c \o <<SLASH>> \o a \o <<SLASH>> \o b \o tl :
        a \in RankParts, b \in RankParts, c \in RankParts, tl \in TailParts }

MovesShort == Str(<<
        "e", "4", " ", "N", "f", "3" >>)

\* A placement field with letters that name no piece.
FenOddLetters ==
    Str(<<
        "4", "k", "3", "/", "2", "x", "1", "Z", "3", "/", "3", "n", "4", "/", "4", "B",
        "3", "/", "8", "/", "8", "/", "4", "P", "3", "/", "4", "K", "3", " ", "w", " ",
        "-", " ", "-", " ", "0", " ", "1" >>)

\* Ranks that run past the eighth column, stop short of it, or fill it.
UnevenRanks ==
    { Str(<<"r", "n", "b", "q", "k", "b", "n", "r", "Q">>),
      Str(<<"8", "p">>),
      Str(<<"7", "p", "p">>),
      Str(<<"5", "N", "5", "n">>),
      Str(<<"k">>),
      Str(<<"4", "K", "3">>) }

\* Nothing, or ranks after the eighth.
ExtraRanks ==
    { <<>>,
      Str(<<"/", "Q", "Q", "Q", "Q", "Q", "Q", "Q", "Q">>),
      Str(<<"/", "8", "/", "r", "7", "/", "q">>) }

\* Placement fields with uneven ranks first, fourth and eighth, and with
\* more than eight ranks.
UnevenFens ==
    { a \o Str(<<"/", "8", "/", "8", "/">>) \o b \o Str(<<"/", "8", "/", "8", "/", "8", "/">>)
        \o c \o x \o tl :
        a \in UnevenRanks, b \in UnevenRanks, c \in UnevenRanks, x \in ExtraRanks,
        tl \in TailParts }

FenInvocations ==
    ((ValidFens \cup UnevenFens) \X {MovesShort})
        \cup {<<FenStart, MovesNone>>, <<FenOddLetters, MovesShort>>}

\* choose_move is called with a FEN string of FenInvocations.
CallFen ==
    /\ pc = "idle"
    /\ invoke(FenInvocations)

NextFen ==
    \/ CallFen
    \/ ParseFen
    \/ CopyMoves
    \/ SplitStep
    \/ ReturnNoMoves
    \/ StartLoop
    \/ Iterate
    \/ Return

SpecFen == Init /\ [][NextFen]_vars

\* The index of the first space of s, Len(s) + 1 when it has none.
FirstSpace(s) ==
    CHOOSE k \in 1..(Len(s) + 1) :
        /\ k = Len(s) + 1 \/ s[k] = SPACE
        /\ \A j \in 1..(k - 1) : s[j] # SPACE

\* The piece-placement field of a FEN string.
Field(f) == SubSeq(f, 1, FirstSpace(f) - 1)

\* The parts of s between the rank separators.
RECURSIVE SplitRanks(_)
SplitRanks(s) ==
    IF \A k \in 1..Len(s) : s[k] # SLASH
    THEN <<s>>
    ELSE LET k == CHOOSE n \in 1..Len(s) : s[n] = SLASH /\ \A j \in 1..(n - 1) : s[j] # SLASH
         IN <<SubSeq(s, 1, k - 1)>> \o SplitRanks(SubSeq(s, k + 1, Len(s)))

\* One rank written out square by square: a digit n stands for n empty
\* squares, a letter for itself.
RECURSIVE Expand(_)
Expand(rank) ==
    IF rank = <<>>
    THEN <<>>
    ELSE IF Head(rank) \in Ranks
    THEN [k \in 1..(Head(rank) - Ch_0) |-> DOT] \o Expand(Tail(rank))
    ELSE <<Head(rank)>> \o Expand(Tail(rank))

PieceLetters ==
    {Ch_P, Ch_N, Ch_B, Ch_R, Ch_Q, Ch_K, ch_p, ch_n, ch_b, ch_r, ch_q, ch_k}

\* A valid placement field: eight ranks of letters and digits, each filling
\* eight columns.
ValidPlacement(field) ==
    LET ranks == SplitRanks(field) IN
    /\ Len(ranks) = ROWS
    /\ \A r \in 1..ROWS :
          /\ \A k \in 1..Len(ranks[r]) : ranks[r][k] \in PieceLetters \cup Ranks
          /\ Len(Expand(ranks[r])) = COLS

\* C13: for a valid placement field the board parse_fen leaves holds at
\* (row, col) what the written-out rank number row + 1 of the field holds at
\* column col + 1 (row 0 is rank 8, column 0 is file a), and the side is the
\* character after the first space.
C13_ParseFenEnumerates ==
    (pc \in {"copy", "split", "loop", "done"} /\ ValidPlacement(Field(fen))) =>
        LET ranks == SplitRanks(Field(fen)) IN
        /\ \A r \in 0..(ROWS - 1) :
              LET squares == Expand(ranks[r + 1]) IN
              \A c \in 0..(COLS - 1) : board[r][c] = squares[c + 1]
        /\ side = At(fen, FirstSpace(fen) + 1)

\* A FEN string with ranks that mix digits and letters of both colours has
\* been decoded, Black to move.
C13_Witness ==
    /\ pc = "copy"
    /\ ValidPlacement(Field(fen))
    /\ SplitRanks(Field(fen))[2] = Str(<<
        "1", "p", "2", "P", "1", "n", "1" >>)
    /\ SplitRanks(Field(fen))[3] = Str(<<
        "2", "b", "1", "B", "1", "Q", "1" >>)
    /\ board[1][1] = ch_p /\ board[1][4] = Ch_P /\ board[1][6] = ch_n
    /\ board[2][2] = ch_b /\ board[2][6] = Ch_Q /\ board[2][7] = DOT
    /\ side = BLACK

\* Material by piece kind.
Material ==
    [k \in {Ch_P, Ch_N, Ch_B, Ch_R, Ch_Q, Ch_K} |->
        IF k = Ch_P THEN 100 ELSE IF k = Ch_N THEN 320 ELSE IF k = Ch_B THEN 330
        ELSE IF k = Ch_R THEN 500 ELSE IF k = Ch_Q THEN 900 ELSE 20000]

\* What the letter ch on (row, col) is worth to its own side: material, the
\* centre term of a knight or bishop, the advancement term of a pawn.
Worth(ch, row, col) ==
    LET k == toupper(ch) IN
    Material[k]
    + (IF k \in {Ch_N, Ch_B} THEN 5 * centre_bonus[row + 1][col + 1] ELSE 0)
    + (IF ch = Ch_P THEN 5 * (7 - row) ELSE IF ch = ch_p THEN 5 * row ELSE 0)

\* The squares of b that hold a letter of the set given.
Holding(b, letters) == {sq \in Squares : b[sq[1]][sq[2]] \in letters}

\* The sum of Worth over a set of squares of b.
RECURSIVE WorthOf(_, _)
WorthOf(b, S) ==
    IF S = {} THEN 0
    ELSE LET sq == CHOOSE x \in S : TRUE
         IN Worth(b[sq[1]][sq[2]], sq[1], sq[2]) + WorthOf(b, S \ {sq})

C15_FailureLeavesBoard ==
    /\ (i = 1 /\ Len(move_list) = 1 /\ applied = 0) =>
          \A sq \in Squares : trial[sq[1]][sq[2]] = board[sq[1]][sq[2]]
    /\ (Tried(Str(<<"e">>)) \/ Tried(Str(<<"i", "9">>))) => applied = 0
    /\ (fen = FenStart /\ Tried(Str(<<"K", "e", "8">>))) => applied = 0

\* "Ke8" has failed on the initial position, where no White king reaches e8,
\* and the Black king still stands there.
C15_Witness ==
    /\ fen = FenStart
    /\ Tried(Str(<<"K", "e", "8">>))
    /\ side = WHITE
    /\ board[0][4] = ch_k
    /\ applied = 0
    /\ trial[0][4] = ch_k
    /\ trial[7][4] = Ch_K

(* ------------------------------------------------------------------ *)
(* zoomba: main and find_path                                         *)
(* ------------------------------------------------------------------ *)
MAX_N == 10000

dx == <<-1, 1, 0, 0>>
dy == <<0, 0, -1, 1>>

dir_char == <<Ord("U"), Ord("D"), Ord("L"), Ord("R")>>

\* The largest grid size and the largest number of obstacles of the inputs.
MaxN == 3
MaxWalls == 2

\* The grids of size k by k with at most MaxWalls obstacles, row by row.
Grids(k) ==
    {g \in [0..(k * k - 1) -> {0, 1}] :
        Cardinality({c \in 0..(k * k - 1) : g[c] = 1}) <= MaxWalls}

\* The coordinates of the inputs.
Coordinates == (0..(MaxN - 1)) \X (0..(MaxN - 1))

\* zoomba is started with its input on stdin: the size, the coordinates of
\* start and target and the digits of the grid.
ZoombaRun ==
    /\ zpc = "idle"
    /\ \E k \in 0..MaxN : \E g \in Grids(k) : \E a \in Coordinates, b \in Coordinates :
          stdin' = [n |-> k, sx |-> a[1], sy |-> a[2], tx |-> b[1], ty |-> b[2], grid |-> g]
    /\ zpc' = "main"
    /\ UNCHANGED <<zn, sx, sy, tx, ty, room, came_from, direction, queue, head, tail,
                   stdout, status>>
    /\ UNCHANGED beside_zoomba

\* main up to the call of find_path: the size, the coordinates and the grid
\* are read and checked.
ZoombaMain ==
    /\ zpc = "main"
    /\ zn' = stdin.n
    /\ IF stdin.n <= 0 \/ stdin.n > MAX_N
       THEN /\ status' = 1
            /\ zpc' = "exit"
            /\ UNCHANGED <<sx, sy, tx, ty, room>>
       ELSE /\ sx' = stdin.sx /\ sy' = stdin.sy
            /\ tx' = stdin.tx /\ ty' = stdin.ty
            /\ IF \/ stdin.sx < 0 \/ stdin.sx >= stdin.n \/ stdin.sy < 0 \/ stdin.sy >= stdin.n
                  \/ stdin.tx < 0 \/ stdin.tx >= stdin.n \/ stdin.ty < 0 \/ stdin.ty >= stdin.n
               THEN /\ status' = 1
                    /\ zpc' = "exit"
                    /\ UNCHANGED room
               ELSE /\ room' = stdin.grid
                    /\ IF \/ stdin.grid[stdin.sx * stdin.n + stdin.sy] # 0
                          \/ stdin.grid[stdin.tx * stdin.n + stdin.ty] # 0
                       THEN status' = 1 /\ zpc' = "exit"
                       ELSE zpc' = "find" /\ UNCHANGED status
    /\ stdin' = <<>>
    /\ UNCHANGED <<came_from, direction, queue, head, tail, stdout>>
    /\ UNCHANGED beside_zoomba

\* The path string: the directions from the start to idx, found by following
\* came_from back from idx.
RECURSIVE backtrack(_, _, _, _)
backtrack(from, dirs, start_idx, idx) ==
    IF idx = start_idx
    THEN <<>>
    ELSE Append(backtrack(from, dirs, start_idx, from[idx]), dir_char[dirs[idx] + 1])

\* The loop over the four directions from direction k on, for the cell cur:
\* st holds came_from, direction, queue and tail, and found, the index of the
\* target once it is reached (Unset before).
RECURSIVE try_directions(_, _, _, _)
try_directions(k, cur, target_idx, st) ==
    IF k = 4 \/ st.found # Unset
    THEN st
    ELSE LET nr == (cur \div zn) + dx[k + 1]
             nc == (cur % zn) + dy[k + 1]
             ni == nr * zn + nc
         IN IF nr < 0 \/ nr >= zn \/ nc < 0 \/ nc >= zn
            THEN try_directions(k + 1, cur, target_idx, st)
            ELSE IF room[ni] # 0 \/ st.came_from[ni] # -1
            THEN try_directions(k + 1, cur, target_idx, st)
            ELSE LET seen == [st EXCEPT !.came_from[ni] = cur, !.direction[ni] = k]
                 IN IF ni = target_idx
                    THEN [seen EXCEPT !.found = ni]
                    ELSE try_directions(k + 1, cur, target_idx,
                                        [seen EXCEPT !.queue[seen.tail] = ni,
                                                     !.tail = seen.tail + 1])

\* Mutant of front: the cell enqueued last is taken.
back(q, h, t) == q[t - 1]

\* cur = queue[head++]: the cell taken from the queue.
front(q, h, t) == q[h]

\* find_path up to the main loop.
ZoombaFindPath ==
    /\ zpc = "find"
    /\ IF sx * zn + sy = tx * zn + ty
       THEN /\ stdout' = Append(stdout, <<>>)
            /\ status' = 0
            /\ zpc' = "exit"
            /\ UNCHANGED <<came_from, direction, queue, head, tail>>
       ELSE /\ came_from' = [[c \in 0..(zn * zn - 1) |-> -1] EXCEPT ![sx * zn + sy] = sx * zn + sy]
            /\ direction' = [c \in 0..(zn * zn - 1) |-> Unset]
            /\ queue' = [[c \in 0..(zn * zn - 1) |-> Unset] EXCEPT ![0] = sx * zn + sy]
            /\ head' = 0
            /\ tail' = 1
            /\ zpc' = "bfs"
            /\ UNCHANGED <<stdout, status>>
    /\ UNCHANGED <<stdin, zn, sx, sy, tx, ty, room>>
    /\ UNCHANGED beside_zoomba

\* One iteration of the main loop: a cell is taken from the queue and its
\* four neighbours are tried; the path is printed when the target is reached.
ZoombaExpand ==
    /\ zpc = "bfs"
    /\ head < tail
    /\ LET st == try_directions(0, front(queue, head, tail), tx * zn + ty,
                                [came_from |-> came_from, direction |-> direction,
                                 queue |-> queue, tail |-> tail, found |-> Unset])
       IN /\ came_from' = st.came_from
          /\ direction' = st.direction
          /\ queue' = st.queue
          /\ tail' = st.tail
          /\ head' = head + 1
          /\ IF st.found # Unset
             THEN /\ stdout' = Append(stdout, backtrack(st.came_from, st.direction,
                                                        sx * zn + sy, st.found))
                  /\ status' = 0
                  /\ zpc' = "exit"
             ELSE UNCHANGED <<stdout, status, zpc>>
    /\ UNCHANGED <<stdin, zn, sx, sy, tx, ty, room>>
    /\ UNCHANGED beside_zoomba

\* The queue is empty and the target was not reached.
ZoombaExhausted ==
    /\ zpc = "bfs"
    /\ ~(head < tail)
    /\ stdout' = Append(stdout, <<Ch_0>>)
    /\ status' = 0
    /\ zpc' = "exit"
    /\ UNCHANGED <<stdin, zn, sx, sy, tx, ty, room, came_from, direction, queue, head, tail>>
    /\ UNCHANGED beside_zoomba

NextZoomba ==
    \/ ZoombaRun
    \/ ZoombaMain
    \/ ZoombaFindPath
    \/ ZoombaExpand
    \/ ZoombaExhausted

SpecZoomba == Init /\ [][NextZoomba]_vars

\* The cell one step from <<r, c>> in the direction the letter names: U and
\* D change the row, L and R the column.
Step(cell, letter) ==
    CASE letter = Ord("U") -> <<cell[1] - 1, cell[2]>>
      [] letter = Ord("D") -> <<cell[1] + 1, cell[2]>>
      [] letter = Ord("L") -> <<cell[1], cell[2] - 1>>
      [] letter = Ord("R") -> <<cell[1], cell[2] + 1>>
      [] OTHER -> <<-1, -1>>

\* The cell is on the grid and free.
Free(cell) ==
    /\ cell[1] \in 0..(zn - 1)
    /\ cell[2] \in 0..(zn - 1)
    /\ room[cell[1] * zn + cell[2]] = 0

\* The letters lead from the cell given to the target through free cells.
RECURSIVE Leads(_, _, _)
Leads(letters, cell, target) ==
    IF letters = <<>>
    THEN cell = target
    ELSE /\ Free(Step(cell, Head(letters)))
         /\ Leads(Tail(letters), Step(cell, Head(letters)), target)

\* The free cells one step from a cell of the set given.
Around(cells) ==
    {c \in (0..(zn - 1)) \X (0..(zn - 1)) :
        /\ Free(c)
        /\ \E b \in cells : abs(b[1] - c[1]) + abs(b[2] - c[2]) = 1}

\* The number of steps it takes to the target from the cells that are d
\* steps from the start (seen: the cells at most d steps from it); -1 when
\* the target cannot be reached.
RECURSIVE StepsTo(_, _, _, _)
StepsTo(target, at, seen, d) ==
    IF target \in at THEN d
    ELSE IF at = {} THEN -1
    ELSE StepsTo(target, Around(at) \ seen, seen \cup Around(at), d + 1)

RECURSIVE is_prime_from(_, _)
is_prime_from(n, k) ==
    IF k * k <= n
    THEN IF n % k = 0 \/ n % (k + 2) = 0 THEN 0 ELSE is_prime_from(n, k + 6)
    ELSE 1

is_prime(n) ==
    IF n < 2 THEN 0
    ELSE IF n < 4 THEN 1
    ELSE IF n % 2 = 0 \/ n % 3 = 0 THEN 0
    ELSE is_prime_from(n, 5)

RECURSIVE gcd(_, _)
gcd(a, b) == IF b # 0 THEN gcd(b, a % b) ELSE a

\* Mutant of square: the base is not squared.
square_kept(b, mod) == b

\* b = (b * b) % (unsigned long long)mod
square(b, mod) == (b * b) % mod

\* The loop of mod_pow. The products of two values below mod stay below
\* 2^64 for every modulus of the inputs, so the arithmetic of unsigned long
\* long is the arithmetic of the integers here.
RECURSIVE mod_pow_loop(_, _, _, _)
mod_pow_loop(acc, b, e, mod) ==
    IF e > 0
    THEN mod_pow_loop(IF e % 2 = 1 THEN (acc * b) % mod ELSE acc,
                      square(b, mod), e \div 2, mod)
    ELSE acc

mod_pow(base, exp, mod) ==
    IF mod = 1 THEN 0 ELSE mod_pow_loop(1, base % mod, exp, mod)

\* The largest exponent and the largest value of p and q of the inputs.
MaxExp == 5
MaxPrime == 7

\* The messages main writes to stderr.
UsageText == "Usage: rsa enc|dec <exp_exp> <priv_exp> <prime1> <prime2>"
OperationText == "First argument must be 'enc' or 'dec'"
NegativeText == "Negative numbers are not allowed"
PrimeText == "p and q must be prime"
CoprimeText == "e is not coprime with phi(N)"
InverseText == "e * d mod phi(N) is not 1"
ReadText == "Failed to read message"
LargerText == "Message is larger than N"

\* rsa is started: an operation and four decimal numbers on the command line
\* (or one argument too few), and one number or nothing on standard input.
RsaRun ==
    /\ rsa_pc = "idle"
    /\ \/ \E op \in {"enc", "dec"}, e \in 0..MaxExp, d \in 0..MaxExp,
              p \in 0..MaxPrime, q \in 0..MaxPrime :
              /\ rsa_argv' = [argc |-> 6, op |-> op, e |-> e, d |-> d, p |-> p, q |-> q]
              /\ \/ rsa_stdin' = <<>>
                 \/ \E m \in (-1)..(MaxPrime * MaxPrime) : rsa_stdin' = <<m>>
       \/ /\ rsa_argv' \in {[argc |-> 6, op |-> "sign", e |-> 3, d |-> 3, p |-> 3, q |-> 5],
                            [argc |-> 5, op |-> "enc", e |-> 3, d |-> 3, p |-> 3, q |-> Unset]}
          /\ rsa_stdin' = <<2>>
    /\ rsa_pc' = "main"
    /\ UNCHANGED <<n_val, phi, rsa_m, rsa_result, rsa_stderr, rsa_stdout, rsa_status>>
    /\ UNCHANGED beside_rsa

\* main returns 1 after writing text to stderr.
RsaFail(text) ==
    /\ rsa_stderr' = Append(rsa_stderr, text)
    /\ rsa_status' = 1
    /\ UNCHANGED rsa_stdout

\* main, from the check of the argument count to its return.
RsaMain ==
    /\ rsa_pc = "main"
    /\ rsa_pc' = "exit"
    /\ LET a == rsa_argv IN
       IF a.argc # 6
       THEN RsaFail(UsageText) /\ UNCHANGED <<n_val, phi, rsa_m, rsa_result, rsa_stdin>>
       ELSE IF a.op # "enc" /\ a.op # "dec"
       THEN RsaFail(OperationText) /\ UNCHANGED <<n_val, phi, rsa_m, rsa_result, rsa_stdin>>
       ELSE IF a.e <= 0 \/ a.d <= 0 \/ a.p <= 0 \/ a.q <= 0
       THEN RsaFail(NegativeText) /\ UNCHANGED <<n_val, phi, rsa_m, rsa_result, rsa_stdin>>
       ELSE IF is_prime(a.p) = 0 \/ is_prime(a.q) = 0
       THEN RsaFail(PrimeText) /\ UNCHANGED <<n_val, phi, rsa_m, rsa_result, rsa_stdin>>
       ELSE /\ n_val' = a.p * a.q
            /\ phi' = (a.p - 1) * (a.q - 1)
            /\ IF gcd(a.e, phi') # 1
               THEN RsaFail(CoprimeText) /\ UNCHANGED <<rsa_m, rsa_result, rsa_stdin>>
               ELSE IF (a.e * a.d) % phi' # 1
               THEN RsaFail(InverseText) /\ UNCHANGED <<rsa_m, rsa_result, rsa_stdin>>
               ELSE IF rsa_stdin = <<>>
               THEN RsaFail(ReadText) /\ UNCHANGED <<rsa_m, rsa_result, rsa_stdin>>
               ELSE /\ rsa_m' = Head(rsa_stdin)
                    /\ rsa_stdin' = Tail(rsa_stdin)
                    /\ IF rsa_m' < 0
                       THEN RsaFail(NegativeText) /\ UNCHANGED rsa_result
                       ELSE IF rsa_m' >= n_val'
                       THEN RsaFail(LargerText) /\ UNCHANGED rsa_result
                       ELSE /\ rsa_result' = IF a.op = "enc"
                                             THEN mod_pow(rsa_m', a.e, n_val')
                                             ELSE mod_pow(rsa_m', a.d, n_val')
                            /\ rsa_stdout' = Append(rsa_stdout, rsa_result')
                            /\ rsa_status' = 0
                            /\ UNCHANGED rsa_stderr
    /\ UNCHANGED rsa_argv
    /\ UNCHANGED beside_rsa

NextRsa ==
    \/ RsaRun
    \/ RsaMain

SpecRsa == Init /\ [][NextRsa]_vars

\* C17: when rsa has encrypted a message m with parameters it accepts,
\* decrypting what it printed with the same parameters gives m back:
\* mod_pow(mod_pow(m, e, N), d, N) = m.
C17_RoundTrip ==
    (rsa_pc = "exit" /\ rsa_status = 0 /\ rsa_argv.op = "enc") =>
        mod_pow(rsa_stdout[1], rsa_argv.d, n_val) = rsa_m

(* ------------------------------------------------------------------ *)
(* jabbamaps: main, find_or_add_city and trim_spaces                  *)
(* ------------------------------------------------------------------ *)
MAX_CITIES == 64
MAX_NAME == 256
NO_ROAD == -1

\* The initial value of best_dist. TLC's integers end at 2^31 - 1, the
\* largest value atoi returns; every distance of the inputs is below it, as
\* every distance is below LLONG_MAX in the program.
LLONG_MAX == 2147483647

TAB == 9
LF == 10
CR == 13
DASH == Ord("-")
COLON == Ord(":")
Ch_9 == Ord("9")

\* The characters from position k on are searched for c: the position of
\* the first one, 0 when there is none.
RECURSIVE strchr(_, _, _)
strchr(s, k, c) ==
    IF k > Len(s) THEN 0
    ELSE IF s[k] = c THEN k
    ELSE strchr(s, k + 1, c)

\* The position of the last '-' before position colon, 0 when there is none.
RECURSIVE last_dash(_, _)
last_dash(s, colon) ==
    IF colon <= 1 THEN 0
    ELSE IF s[colon - 1] = DASH THEN colon - 1
    ELSE last_dash(s, colon - 1)

RECURSIVE trim_trailing(_)
trim_trailing(s) ==
    IF Len(s) > 0 /\ s[Len(s)] \in {SPACE, TAB, CR, LF}
    THEN trim_trailing(SubSeq(s, 1, Len(s) - 1))
    ELSE s

RECURSIVE trim_leading(_)
trim_leading(s) ==
    IF At(s, 1) = SPACE \/ At(s, 1) = TAB THEN trim_leading(Tail(s)) ELSE s

trim_spaces(s) == IF s = <<>> THEN s ELSE trim_leading(trim_trailing(s))

\* The digits of atoi from position k on, after the value acc.
RECURSIVE atoi_digits(_, _, _)
atoi_digits(s, k, acc) ==
    IF At(s, k) >= Ch_0 /\ At(s, k) <= Ch_9
    THEN atoi_digits(s, k + 1, acc * 10 + (At(s, k) - Ch_0))
    ELSE acc

\* atoi from position k on: white space, a sign, digits.
RECURSIVE atoi_from(_, _)
atoi_from(s, k) ==
    IF At(s, k) = SPACE \/ At(s, k) \in TAB..CR THEN atoi_from(s, k + 1)
    ELSE IF At(s, k) = DASH THEN 0 - atoi_digits(s, k + 1, 0)
    ELSE IF At(s, k) = PLUS THEN atoi_digits(s, k + 1, 0)
    ELSE atoi_digits(s, k, 0)

\* The index of the name in the table given (from row k on), -1 when it is
\* not there.
RECURSIVE find_city(_, _, _)
find_city(names, name, k) ==
    IF k >= Len(names) THEN -1
    ELSE IF names[k + 1] = name THEN k
    ELSE find_city(names, name, k + 1)

\* find_or_add_city: the index returned and the table afterwards.
find_or_add_city(names, name) ==
    IF find_city(names, name, 0) # -1
    THEN [index |-> find_city(names, name, 0), names |-> names]
    ELSE IF Len(names) >= MAX_CITIES
    THEN [index |-> -1, names |-> names]
    ELSE [index |-> Len(names), names |-> Append(names, strncpy(name, MAX_NAME - 1))]

\* dist[a][b]
dist_at(matrix, a, b) ==
    IF <<a, b>> \in DOMAIN matrix THEN matrix[<<a, b>>] ELSE NO_ROAD

\* dist[a][b] = v
dist_set(matrix, a, b, v) ==
    [x \in (DOMAIN matrix) \cup {<<a, b>>} |-> IF x = <<a, b>> THEN v ELSE matrix[x]]

\* Mutant of may_follow: a city without a road from the current one may follow.
may_follow_without_road(curr, j, best_dist) ==
    /\ visited[j] = 0
    /\ dist_at(dist, curr, j) < best_dist

\* The condition of the scan for the nearest unvisited city.
may_follow(curr, j, best_dist) ==
    /\ visited[j] = 0
    /\ dist_at(dist, curr, j) # NO_ROAD
    /\ dist_at(dist, curr, j) < best_dist

\* The scan for the nearest unvisited city, from city j on.
RECURSIVE nearest(_, _, _, _)
nearest(curr, j, next, best_dist) ==
    IF j < num_cities
    THEN IF may_follow(curr, j, best_dist)
         THEN nearest(curr, j + 1, j, dist_at(dist, curr, j))
         ELSE nearest(curr, j + 1, next, best_dist)
    ELSE [next |-> next, best_dist |-> best_dist]

\* The lines of the map files of the inputs.
LineAB == Str(<<"A", "-", "B", ":", " ", "5">>) \o <<LF>>
LineAC == Str(<<"A", "-", "C", ":", " ", "2">>) \o <<LF>>
LineBC == Str(<<"B", "-", "C", ":", " ", "1">>) \o <<LF>>
LineCD == Str(<<"C", "-", "D", ":", " ", "2">>) \o <<LF>>
LineBD == Str(<<" ", "B", " ", "-", " ", "D", " ", ":", " ", " ", "1", "4">>) \o <<CR, LF>>
LineBA == Str(<<"B", "-", "A", ":", "3">>) \o <<LF>>
LineNoDash == Str(<<"D", ":", " ", "7">>) \o <<LF>>
LineBlank == <<LF>>

MapLines == {LineAB, LineAC, LineBC, LineCD, LineBD, LineBA, LineNoDash, LineBlank}

\* The largest number of lines of a map file of the inputs.
MaxLines == 4

MapFiles == UNION {[1..k -> MapLines] : k \in 0..MaxLines}

MapName == "map.txt"
MissingName == "missing.txt"

\* jabbamaps is started: with the name of a map file, with the name of a
\* file that is not there, or with no argument.
JabbaRun ==
    /\ jpc = "idle"
    /\ \/ \E f \in MapFiles :
              /\ map_disk' = [x \in {MapName} |-> f]
              /\ jabba_argv' = <<"jabbamaps", MapName>>
       \/ /\ map_disk' = [x \in {MapName} |-> <<LineAB>>]
          /\ jabba_argv' \in {<<"jabbamaps">>, <<"jabbamaps", MissingName>>}
    /\ jpc' = "main"
    /\ UNCHANGED <<fp, city_names, num_cities, dist, visited, path, edge_costs, total_cost,
                   step, jabba_stdout, jabba_stderr, jabba_status>>
    /\ UNCHANGED beside_jabba

\* main returns 1 after writing text to stderr.
JabbaFail(text) ==
    /\ jabba_stderr' = Append(jabba_stderr, text)
    /\ jabba_status' = 1
    /\ jpc' = "exit"

\* main up to the loop that reads the file.
JabbaMain ==
    /\ jpc = "main"
    /\ IF Len(jabba_argv) # 2
       THEN JabbaFail(<<"Usage: %s <mapfile>", jabba_argv[1]>>) /\ UNCHANGED <<fp, dist>>
       ELSE /\ dist' = <<>>
            /\ IF jabba_argv[2] \notin DOMAIN map_disk
               THEN JabbaFail(<<"Cannot open file: %s", jabba_argv[2]>>) /\ UNCHANGED fp
               ELSE /\ fp' = map_disk[jabba_argv[2]]
                    /\ jpc' = "read"
                    /\ UNCHANGED <<jabba_stderr, jabba_status>>
    /\ UNCHANGED <<jabba_argv, map_disk, city_names, num_cities, visited, path, edge_costs,
                   total_cost, step, jabba_stdout>>
    /\ UNCHANGED beside_jabba

\* One iteration of the loop that reads the file: fgets returns a line.
JabbaLine ==
    /\ jpc = "read"
    /\ fp # <<>>
    /\ fp' = Tail(fp)
    /\ LET line == Head(fp)
           colon == strchr(line, 1, COLON)
           dash == last_dash(line, colon)
           len1 == dash - 1
           len2 == colon - dash - 1
           city1 == trim_spaces(SubSeq(line, 1, len1))
           city2 == trim_spaces(SubSeq(line, dash + 1, colon - 1))
           d == atoi_from(line, colon + 1)
           c1 == find_or_add_city(city_names, city1)
           c2 == find_or_add_city(c1.names, city2)
       IN IF \/ At(line, 1) = LF \/ At(line, 1) = CR \/ At(line, 1) = NUL
             \/ colon = 0
             \/ dash = 0
             \/ len1 <= 0 \/ len1 >= MAX_NAME
             \/ len2 <= 0 \/ len2 >= MAX_NAME
          THEN UNCHANGED <<city_names, num_cities, dist, jabba_stderr, jabba_status, jpc>>
          ELSE /\ city_names' = c2.names
               /\ num_cities' = Len(c2.names)
               /\ IF c1.index = -1 \/ c2.index = -1
                  THEN /\ JabbaFail(<<"Too many cities (maximum %d)", MAX_CITIES>>)
                       /\ UNCHANGED dist
                  ELSE /\ dist' = dist_set(dist_set(dist, c1.index, c2.index, d),
                                           c2.index, c1.index, d)
                       /\ UNCHANGED <<jabba_stderr, jabba_status, jpc>>
    /\ UNCHANGED <<jabba_argv, map_disk, visited, path, edge_costs, total_cost, step,
                   jabba_stdout>>
    /\ UNCHANGED beside_jabba

\* fgets returns NULL: the file is closed and the tour is started at city 0.
JabbaEndOfFile ==
    /\ jpc = "read"
    /\ fp = <<>>
    /\ IF num_cities < 1
       THEN /\ JabbaFail(<<"No cities found in %s", jabba_argv[2]>>)
            /\ UNCHANGED <<visited, path, total_cost, step>>
       ELSE /\ visited' = [[k \in 0..(num_cities - 1) |-> 0] EXCEPT ![0] = 1]
            /\ path' = [k \in {0} |-> 0]
            /\ total_cost' = 0
            /\ step' = 1
            /\ jpc' = "tour"
            /\ UNCHANGED <<jabba_stderr, jabba_status>>
    /\ UNCHANGED <<jabba_argv, map_disk, fp, city_names, num_cities, dist, edge_costs,
                   jabba_stdout>>
    /\ UNCHANGED beside_jabba

\* One iteration of the loop that builds the tour.
JabbaStep ==
    /\ jpc = "tour"
    /\ step < num_cities
    /\ LET curr == path[step - 1]
           found == nearest(curr, 0, -1, LLONG_MAX)
       IN IF found.next = -1
          THEN /\ JabbaFail(<<"No road from %s to any unvisited city", city_names[curr + 1]>>)
               /\ UNCHANGED <<visited, path, edge_costs, total_cost, step>>
          ELSE /\ path' = [k \in 0..step |-> IF k = step THEN found.next ELSE path[k]]
               /\ edge_costs' = [k \in 0..(step - 1) |->
                                    IF k = step - 1 THEN found.best_dist ELSE edge_costs[k]]
               /\ visited' = [visited EXCEPT ![found.next] = 1]
               /\ total_cost' = total_cost + found.best_dist
               /\ step' = step + 1
               /\ UNCHANGED <<jabba_stderr, jabba_status, jpc>>
    /\ UNCHANGED <<jabba_argv, map_disk, fp, city_names, num_cities, dist, jabba_stdout>>
    /\ UNCHANGED beside_jabba

\* The tour is complete: it is printed, city by city, and the total cost
\* after it.
JabbaPrint ==
    /\ jpc = "tour"
    /\ ~(step < num_cities)
    /\ jabba_stdout' =
          <<"We will visit the cities in the following order:",
            [first |-> city_names[path[0] + 1],
             legs |-> [k \in 1..(num_cities - 1) |->
                         [cost |-> edge_costs[k - 1], city |-> city_names[path[k] + 1]]]],
            [total |-> total_cost]>>
    /\ jabba_status' = 0
    /\ jpc' = "exit"
    /\ UNCHANGED <<jabba_argv, map_disk, fp, city_names, num_cities, dist, visited, path,
                   edge_costs, total_cost, step, jabba_stderr>>
    /\ UNCHANGED beside_jabba

NextJabba ==
    \/ JabbaRun
    \/ JabbaMain
    \/ JabbaLine
    \/ JabbaEndOfFile
    \/ JabbaStep
    \/ JabbaPrint

SpecJabba == Init /\ [][NextJabba]_vars

NameA == Str(<<"A">>)
NameB == Str(<<"B">>)
NameC == Str(<<"C">>)
NameD == Str(<<"D">>)

\* What a line of the inputs says, read by eye: a road between two cities
\* and its length, or nothing.
RoadOn(line) ==
    CASE line = LineAB -> <<[a |-> NameA, b |-> NameB, cost |-> 5]>>
      [] line = LineAC -> <<[a |-> NameA, b |-> NameC, cost |-> 2]>>
      [] line = LineBC -> <<[a |-> NameB, b |-> NameC, cost |-> 1]>>
      [] line = LineCD -> <<[a |-> NameC, b |-> NameD, cost |-> 2]>>
      [] line = LineBD -> <<[a |-> NameB, b |-> NameD, cost |-> 14]>>
      [] line = LineBA -> <<[a |-> NameB, b |-> NameA, cost |-> 3]>>
      [] OTHER -> <<>>

\* The roads of a map file, in the order of its lines.
RECURSIVE RoadsOf(_)
RoadsOf(file) ==
    IF file = <<>> THEN <<>> ELSE RoadOn(Head(file)) \o RoadsOf(Tail(file))

\* The sum of the costs printed with the first k legs.
RECURSIVE CostOfLegs(_, _)
CostOfLegs(legs, k) ==
    IF k = 0 THEN 0 ELSE legs[k].cost + CostOfLegs(legs, k - 1)

\* C18: when jabbamaps has read a map file with at least one road and has
\* printed a tour, the tour starts at the first city of the file, holds
\* every city of the file once, every two cities that follow each other are
\* joined by a road of the file, and the total printed is the sum of the
\* costs printed; when it has printed no tour, it has reported that the city
\* reached last has no road to a city not visited, and there is such a city
\* and no such road.
C18_Tour ==
    (jpc = "exit" /\ Len(jabba_argv) = 2 /\ jabba_argv[2] = MapName) =>
        LET roads == RoadsOf(map_disk[MapName])
            cities == {roads[k].a : k \in 1..Len(roads)} \cup {roads[k].b : k \in 1..Len(roads)}
            Joined(x, y) == \E k \in 1..Len(roads) : {roads[k].a, roads[k].b} = {x, y}
        IN IF jabba_stdout # <<>>
           THEN LET tour == jabba_stdout[2]
                    stops == <<tour.first>> \o [k \in 1..Len(tour.legs) |-> tour.legs[k].city]
                IN /\ jabba_status = 0
                   /\ roads # <<>>
                   /\ stops[1] = roads[1].a
                   /\ {stops[k] : k \in 1..Len(stops)} = cities
                   /\ Len(stops) = Cardinality(cities)
                   /\ \A k \in 1..(Len(stops) - 1) : Joined(stops[k], stops[k + 1])
                   /\ jabba_stdout[3].total = CostOfLegs(tour.legs, Len(tour.legs))
           ELSE /\ jabba_status = 1
                /\ roads # <<>> =>
                      LET last == city_names[path[step - 1] + 1]
                          ahead == {city_names[k + 1] : k \in {x \in 0..(num_cities - 1) : visited[x] = 0}}
                      IN /\ jabba_stderr = <<<<"No road from %s to any unvisited city", last>>>>
                         /\ ahead # {}
                         /\ \A y \in ahead : ~Joined(last, y)

\* The tour printed for the roads A-B (5, then 3), B-D (14) and C-D (2):
\* from A to B, the only road from A, then to D and to C.
C18_Witness ==
    /\ jpc = "exit"
    /\ map_disk[MapName] = <<LineAB, LineBA, LineBD, LineCD>>
    /\ jabba_status = 0
    /\ jabba_stdout[2] = [first |-> NameA,
                          legs |-> <<[cost |-> 3, city |-> NameB],
                                     [cost |-> 14, city |-> NameD],
                                     [cost |-> 2, city |-> NameC]>>]
    /\ jabba_stdout[3] = [total |-> 19]

(* ------------------------------------------------------------------ *)
(* neurolib: neuro_ask and build_mock_json                            *)
(* ------------------------------------------------------------------ *)
\* The sentinel that ends mock_contents.
MockEnd == "NULL"

mock_contents == <<
    "I'd answer that, but I don't want to ruin the surprise.",
    "I could tell you, but then I'd have to awkwardly dance away without explaining why.",
    "That's classified. If I told you, I'd have to forget I said it.",
    "My sources are unreliable, but my confidence is sky high.",
    "Great question! Unfortunately, the answer is beyond mortal understanding.",
    MockEnd >>

\* snprintf(json, len, fmt, content): the text before %s, the content and
\* the text after %s. malloc is taken to succeed.
build_mock_json(content) ==
    <<"{\"choices\":[{\"message\":{\"content\":\"", content, "\"}}]}">>

\* while (mock_contents[mock_index] != NULL) mock_index++: the value of
\* mock_index after the loop, entered with the value k.
RECURSIVE count_contents(_)
count_contents(k) ==
    IF mock_contents[k + 1] # MockEnd THEN count_contents(k + 1) ELSE k

\* Mutant of advance: the index does not wrap.
advance_unwrapped(idx, entries) == idx + 1

\* mock_index = (idx + 1) % mock_index
advance(idx, entries) == (idx + 1) % entries

\* The largest number of calls of neuro_ask without an API key.
MaxCalls == 12

ApiKeyName == "OPENAI_API_KEY"

\* The environments of the inputs: the key is not set, empty, or set.
Environments ==
    {<<>>, [x \in {ApiKeyName} |-> ""], [x \in {ApiKeyName} |-> "sk-test"]}

Prompts == {"", "Who are you?", "What is 2 + 2?"}

\* What real_api_call may return: NULL or the body of a response.
ApiResults == {<<>>, <<"{\"choices\":[]}">>}

\* The caller calls neuro_ask(prompt) in some environment.
NeuroAsk ==
    /\ mock_calls < MaxCalls
    /\ \E env \in Environments, prompt \in Prompts :
          /\ environ' = env
          /\ neuro_prompt' = prompt
          /\ IF ApiKeyName \notin DOMAIN env \/ env[ApiKeyName] = ""
             THEN LET idx == mock_index IN
                  /\ mock_index' = advance(idx, count_contents(idx))
                  /\ neuro_reply' = build_mock_json(mock_contents[idx + 1])
                  /\ mock_calls' = mock_calls + 1
             ELSE /\ neuro_reply' \in ApiResults
                  /\ UNCHANGED <<mock_index, mock_calls>>
    /\ UNCHANGED beside_neuro

NextNeuro == NeuroAsk

SpecNeuro == Init /\ [][NextNeuro]_vars

\* The five answers, as the README counts them.
Answer(k) ==
    CASE k = 0 -> "I'd answer that, but I don't want to ruin the surprise."
      [] k = 1 -> "I could tell you, but then I'd have to awkwardly dance away without explaining why."
      [] k = 2 -> "That's classified. If I told you, I'd have to forget I said it."
      [] k = 3 -> "My sources are unreliable, but my confidence is sky high."
      [] k = 4 -> "Great question! Unfortunately, the answer is beyond mortal understanding."

\* The last call of neuro_ask was made without an API key.
Mocked == ApiKeyName \notin DOMAIN environ \/ environ[ApiKeyName] = ""

DEFAULT_WINDOW == 50

\* The largest window given on the command line and the largest number of
\* values of a file drawn from FileValues.
MaxWindow == 5
MaxValues == 5

\* The numbers of the files of the inputs; every other token is text that
\* fscanf("%lf") does not convert.
FileValues == {1, 2, 5}
NotANumber == 0 - 1

ValuesName == "values.txt"

\* A file with two values more than the default window.
LongFile == [k \in 1..(DEFAULT_WINDOW + 2) |-> 1 + (k % 3)]

\* The files of the inputs: numbers only, numbers followed by text, and the
\* long file.
DataFiles ==
    UNION {[1..k -> FileValues] : k \in 0..MaxValues}
        \cup {<<5, 1, NotANumber, 2>>, LongFile}

\* What strtoll makes of argv[3]: whether it is a decimal number to its end,
\* and the number.
WindowTexts ==
    {[numeral |-> TRUE, value |-> w] : w \in (-1)..MaxWindow}
        \cup {[numeral |-> FALSE, value |-> 0]}

\* The command lines of the inputs.
CommandLines ==
    {[argc |-> 4, filename |-> ValuesName, flag |-> "--window", number |-> w] : w \in WindowTexts}
        \cup {[argc |-> 4, filename |-> ValuesName, flag |-> "--win",
                number |-> [numeral |-> TRUE, value |-> 2]],
               [argc |-> 4, filename |-> MissingName, flag |-> "--window",
                number |-> [numeral |-> TRUE, value |-> 2]],
               [argc |-> 3, filename |-> ValuesName, flag |-> "--window",
                number |-> [numeral |-> FALSE, value |-> 0]],
               [argc |-> 2, filename |-> ValuesName, flag |-> "",
                number |-> [numeral |-> FALSE, value |-> 0]],
               [argc |-> 1, filename |-> "", flag |-> "",
                number |-> [numeral |-> FALSE, value |-> 0]]}

\* The numbers of doubles malloc can provide in the runs of the inputs.
HeapSizes == (0..MaxWindow) \cup {DEFAULT_WINDOW}

\* future is started: a command line, a file and the memory there is.
FutureRun ==
    /\ future_pc = "idle"
    /\ future_argv' \in CommandLines
    /\ \E f \in DataFiles : future_disk' = [x \in {ValuesName} |-> f]
    /\ heap' \in HeapSizes
    /\ future_pc' = "main"
    /\ UNCHANGED <<window, future_fp, future_buf, count, future_pos, sum, future_stdout,
                   future_stderr, future_status>>
    /\ UNCHANGED beside_future

UsageLine == "Usage: %s <filename> [--window N (default: 50)]"
TooSmallLine == "Window too small!"
TooLargeLine == "Window too large!"
AllocationLine == "Failed to allocate window memory"

\* main returns 1 after writing text to stderr.
FutureFail(text) ==
    /\ future_stderr' = Append(future_stderr, text)
    /\ future_status' = 1
    /\ future_pc' = "exit"

\* main up to the loop that reads the file.
FutureMain ==
    /\ future_pc = "main"
    /\ LET a == future_argv IN
       IF a.argc < 2
       THEN FutureFail(UsageLine) /\ UNCHANGED <<window, future_fp, future_buf, count, future_pos>>
       ELSE IF a.argc = 4 /\ a.flag # "--window"
       THEN /\ FutureFail(UsageLine)
            /\ window' = DEFAULT_WINDOW
            /\ UNCHANGED <<future_fp, future_buf, count, future_pos>>
       ELSE IF a.argc = 4 /\ ~a.number.numeral
       THEN /\ FutureFail(UsageLine)
            /\ window' = a.number.value
            /\ UNCHANGED <<future_fp, future_buf, count, future_pos>>
       ELSE IF a.argc # 4 /\ a.argc # 2
       THEN /\ FutureFail(UsageLine)
            /\ window' = DEFAULT_WINDOW
            /\ UNCHANGED <<future_fp, future_buf, count, future_pos>>
       ELSE /\ window' = IF a.argc = 4 THEN a.number.value ELSE DEFAULT_WINDOW
            /\ IF window' < 1
               THEN FutureFail(TooSmallLine) /\ UNCHANGED <<future_fp, future_buf, count, future_pos>>
               ELSE IF window' > heap
               THEN FutureFail(AllocationLine) /\ UNCHANGED <<future_fp, future_buf, count, future_pos>>
               ELSE /\ future_buf' = [k \in 0..(window' - 1) |-> Unset]
                    /\ IF a.filename \notin DOMAIN future_disk
                       THEN /\ FutureFail(<<"Cannot open file: %s", a.filename>>)
                            /\ UNCHANGED <<future_fp, count, future_pos>>
                       ELSE /\ future_fp' = future_disk[a.filename]
                            /\ count' = 0
                            /\ future_pos' = 0
                            /\ future_pc' = "read"
                            /\ UNCHANGED <<future_stderr, future_status>>
    /\ UNCHANGED <<future_argv, future_disk, heap, sum, future_stdout>>
    /\ UNCHANGED beside_future

\* fscanf(fp, "%lf", &val) == 1
converts(tokens) == tokens # <<>> /\ Head(tokens) # NotANumber

\* Mutant of slot: once the buffer is full the last slot is written.
slot_last(p, w) == IF p < w THEN p ELSE w - 1

\* buf[pos % window]
slot(p, w) == p % w

\* One iteration of the loop that reads the file.
FutureRead ==
    /\ future_pc = "read"
    /\ converts(future_fp)
    /\ future_buf' = [future_buf EXCEPT ![slot(future_pos, window)] = Head(future_fp)]
    /\ future_fp' = Tail(future_fp)
    /\ future_pos' = future_pos + 1
    /\ count' = count + 1
    /\ UNCHANGED <<future_pc, future_argv, future_disk, heap, window, sum, future_stdout,
                   future_stderr, future_status>>
    /\ UNCHANGED beside_future

\* sum += buf[i] for i from k to window - 1.
RECURSIVE sum_from(_, _, _)
sum_from(b, k, w) == IF k < w THEN b[k] + sum_from(b, k + 1, w) ELSE 0

\* printf("%.2f", total / (double)w) for a total that is not negative: the
\* number printed, in hundredths. The quotient is rounded to the nearest
\* hundredth; it lies halfway between two only for w = 8 among the windows
\* up to 8, where it is a double exactly and printf rounds to the even one.
printf_2f(total, w) ==
    LET q == (100 * total) \div w
        r == (100 * total) % w
    IN IF 2 * r < w THEN q
       ELSE IF 2 * r > w THEN q + 1
       ELSE IF q % 2 = 0 THEN q ELSE q + 1

\* The loop has ended: the file is closed, the window is checked against the
\* number of values read and the average is printed.
FutureEnd ==
    /\ future_pc = "read"
    /\ ~converts(future_fp)
    /\ future_fp' = <<>>
    /\ IF window > count
       THEN FutureFail(TooLargeLine) /\ UNCHANGED <<sum, future_stdout>>
       ELSE /\ sum' = sum_from(future_buf, 0, window)
            /\ future_stdout' = Append(future_stdout, printf_2f(sum', window))
            /\ future_status' = 0
            /\ future_pc' = "exit"
            /\ UNCHANGED future_stderr
    /\ UNCHANGED <<future_argv, future_disk, heap, window, future_buf, count, future_pos>>
    /\ UNCHANGED beside_future

NextFuture ==
    \/ FutureRun
    \/ FutureMain
    \/ FutureRead
    \/ FutureEnd

SpecFuture == Init /\ [][NextFuture]_vars

\* The values of a file: its tokens up to the first one that is not a number.
RECURSIVE ValuesOf(_)
ValuesOf(tokens) ==
    IF tokens = <<>> \/ Head(tokens) = NotANumber
    THEN <<>>
    ELSE <<Head(tokens)>> \o ValuesOf(Tail(tokens))

\* How often v occurs among the values of the function or sequence f.
Occurrences(f, v) == Cardinality({k \in DOMAIN f : f[k] = v})

\* The sum of the elements of a sequence.
RECURSIVE Total(_)
Total(seq) == IF seq = <<>> THEN 0 ELSE Head(seq) + Total(Tail(seq))

\* future has run on the file values.txt with a window W: the one given,
\* or 50 when none is given.
WindowRun ==
    /\ future_pc = "exit"
    /\ future_argv.filename = ValuesName
    /\ \/ future_argv.argc = 2
       \/ future_argv.argc = 4 /\ future_argv.flag = "--window" /\ future_argv.number.numeral

\* After N values with 1 <= W <= N the buffer holds the last W values and
\* their average is what is printed.
LastValuesAveraged ==
    LET read == ValuesOf(future_disk[ValuesName])
        last == SubSeq(read, Len(read) - window + 1, Len(read))
    IN (count = Len(read) /\ window >= 1 /\ Len(read) >= window) =>
          /\ DOMAIN future_buf = 0..(window - 1)
          /\ \A v \in FileValues : Occurrences(future_buf, v) = Occurrences(last, v)
          /\ future_stdout = <<printf_2f(Total(last), window)>>
          /\ future_status = 0

\* C20 as stated: after N values with N >= W the buffer holds the last W
\* values read and their average is printed; W < 1 is reported as "Window
\* too small!"; W > N is reported as "Window too large!" and no average is
\* printed.
C20_WindowAsStated ==
    WindowRun =>
        /\ LastValuesAveraged
        /\ window < 1 => future_stderr = <<TooSmallLine>> /\ future_stdout = <<>>
        /\ window > Len(ValuesOf(future_disk[ValuesName])) =>
              future_stderr = <<TooLargeLine>> /\ future_stdout = <<>>

\* C20, amended: as stated, but W > N is reported as "Window too large!"
\* only when malloc has provided the buffer of W doubles; when it has not,
\* "Failed to allocate window memory" is reported, and no average is
\* printed either.
C20_Window ==
    WindowRun =>
        /\ LastValuesAveraged
        /\ window < 1 => future_stderr = <<TooSmallLine>> /\ future_stdout = <<>>
        /\ window > Len(ValuesOf(future_disk[ValuesName])) =>
              /\ future_stderr = <<IF window > heap THEN AllocationLine ELSE TooLargeLine>>
              /\ future_stdout = <<>>

\* Five values have been read with a window of 3: the fourth and the fifth
\* have replaced the first and the second, and 1.67 is printed.
C20_Witness ==
    /\ future_pc = "exit"
    /\ future_disk[ValuesName] = <<5, 1, 2, 1, 2>>
    /\ window = 3
    /\ count = 5
    /\ future_buf = [k \in 0..2 |-> IF k = 0 THEN 1 ELSE 2]
    /\ future_stdout = <<167>>

(* ------------------------------------------------------------------ *)
(* Further properties of find_piece and apply_move                    *)
(* ------------------------------------------------------------------ *)
\* The token is a destination square and nothing else: a pawn move with no
\* capture marker and no hint, such as "e4".
PlainPawnToken(t) == Len(t) = 2 /\ t[1] \in Files /\ t[2] \in Ranks

\* C21: a pawn token with no capture marker and no file hint that applies
\* has moved a pawn from a square of the destination file, and no square but
\* the source has been emptied.
C21_PawnKeepsFile ==
    (i = 1 /\ Len(move_list) = 1 /\ side \in {WHITE, BLACK} /\ applied = 1
       /\ PlainPawnToken(move_list[1])) =>
        LET t == move_list[1]
            dr == Ch_8 - t[2]
            dc == t[1] - ch_a
            src == find_piece(board, Mover(t), dr, dc, -1, -1)
        IN /\ src.found = 1
           /\ src.col = dc
           /\ \A sq \in Changed(board, trial) :
                 trial[sq[1]][sq[2]] = DOT => sq = <<src.row, src.col>>

\* The token is the king letter and a destination square, such as "Ke2".
PlainKingToken(t) == Len(t) = 3 /\ t[1] = Ch_K /\ t[2] \in Files /\ t[3] \in Ranks

\* C22: a king token that applies has moved the king from a square next to
\* the destination: the source differs from the destination, is at most one
\* rank and one file away from it, and is empty after the move.
C22_KingAdjacent ==
    (i = 1 /\ Len(move_list) = 1 /\ side \in {WHITE, BLACK} /\ applied = 1
       /\ PlainKingToken(move_list[1])) =>
        LET t == move_list[1]
            dr == Ch_8 - t[3]
            dc == t[2] - ch_a
            src == find_piece(board, Mover(t), dr, dc, -1, -1)
        IN /\ src.found = 1
           /\ <<src.row, src.col>> # <<dr, dc>>
           /\ abs(src.row - dr) <= 1
           /\ abs(src.col - dc) <= 1
           /\ trial[src.row][src.col] = DOT

\* The token is a piece letter or none, a disambiguating file or rank or
\* none, a capture marker or none, and a destination square.
PlainToken(t) ==
    /\ Len(t) >= 2
    /\ LET rest == IF NamesPiece(t) THEN Tail(t) ELSE t
           lead == SubSeq(rest, 1, Len(rest) - 2)
       IN /\ Len(rest) \in 2..4
          /\ rest[Len(rest) - 1] \in Files
          /\ rest[Len(rest)] \in Ranks
          /\ \/ lead = <<>>
             \/ lead = <<ch_x>>
             \/ Len(lead) = 1 /\ lead[1] \in Files \cup Ranks
             \/ Len(lead) = 2 /\ lead[1] \in Files \cup Ranks /\ lead[2] = ch_x

\* The rank and the file a plain token asks the mover to start from, -1 when
\* it does not say.
RankAsked(t) ==
    LET rest == IF NamesPiece(t) THEN Tail(t) ELSE t
    IN IF Len(rest) >= 3 /\ rest[1] \in Ranks THEN Ch_8 - rest[1] ELSE -1

FileAsked(t) ==
    LET rest == IF NamesPiece(t) THEN Tail(t) ELSE t
    IN IF Len(rest) >= 3 /\ rest[1] \in Files THEN rest[1] - ch_a ELSE -1

\* The squares of the board before the move that hold the mover's piece,
\* agree with what token t asks and reach its destination.
Able(t) ==
    {sq \in Squares :
        candidate(board, Mover(t), sq[1], sq[2], Ch_8 - t[Len(t)], t[Len(t) - 1] - ch_a,
                  RankAsked(t), FileAsked(t))}

\* Square a comes before square b in row-major order, rank 8 first, file a first.
Before(a, b) == a[1] < b[1] \/ (a[1] = b[1] /\ a[2] < b[2])

\* C23: a plain token fails exactly when no piece of the mover's kind and
\* colour that agrees with its hints reaches the destination; otherwise the
\* piece moved is the first of them in row-major order, and the others stay
\* where they were.
C23_FirstInRowMajor ==
    (i = 1 /\ Len(move_list) = 1 /\ side \in {WHITE, BLACK} /\ PlainToken(move_list[1])) =>
        LET t == move_list[1]
            dest == <<Ch_8 - t[Len(t)], t[Len(t) - 1] - ch_a>>
        IN IF Able(t) = {}
           THEN applied = 0
           ELSE /\ applied = 1
                /\ \E first \in Able(t) :
                      /\ \A sq \in Able(t) \ {first} : Before(first, sq)
                      /\ trial[first[1]][first[2]] = DOT \/ first = dest
                      /\ \A sq \in Able(t) \ {first, dest, <<first[1], dest[2]>>} :
                            trial[sq[1]][sq[2]] = Mover(t)

\* "Ra3" has been applied with White rooks on a5 and a1 that both reach a3:
\* the rook of a5 has moved and the rook of a1 has not.
C23_Witness ==
    /\ Tried(Str(<<"R", "a", "3">>))
    /\ fen = FenRooks
    /\ Cardinality(Able(move_list[1])) = 2
    /\ applied = 1
    /\ trial[3][0] = DOT
    /\ trial[5][0] = Ch_R
    /\ trial[7][0] = Ch_R

\* Square dest lies on a ray of the sliding piece of letter kind standing on
\* src (rook: rank or file, bishop: diagonal, queen: either), and every
\* square strictly between the two is empty on the board before the move.
Slides(kind, src, dest) ==
    LET vr == dest[1] - src[1]
        vc == dest[2] - src[2]
        n == IF abs(vr) > abs(vc) THEN abs(vr) ELSE abs(vc)
        straight == (vr = 0) # (vc = 0)
        diagonal == abs(vr) = abs(vc) /\ vr # 0
    IN /\ \/ kind \in {Ch_R, Ch_Q} /\ straight
          \/ kind \in {Ch_B, Ch_Q} /\ diagonal
       /\ \A m \in 1..(n - 1) :
             board[src[1] + m * (vr \div n)][src[2] + m * (vc \div n)] = DOT

\* C24: a plain bishop, rook or queen token applies exactly when the
\* destination lies on a ray of one of the mover's pieces of that kind that
\* agrees with the hint, with every square strictly between empty, whatever
\* stands on the destination; such a piece is the one moved.
C24_SlidingReach ==
    (i = 1 /\ Len(move_list) = 1 /\ side \in {WHITE, BLACK} /\ PlainToken(move_list[1])
       /\ move_list[1][1] \in {Ch_B, Ch_R, Ch_Q}) =>
        LET t == move_list[1]
            dest == <<Ch_8 - t[Len(t)], t[Len(t) - 1] - ch_a>>
            slid == {sq \in Squares :
                        /\ board[sq[1]][sq[2]] = Mover(t)
                        /\ RankAsked(t) \in {-1, sq[1]}
                        /\ FileAsked(t) \in {-1, sq[2]}
                        /\ Slides(t[1], sq, dest)}
        IN /\ (applied = 1) <=> (slid # {})
           /\ applied = 1 =>
                 \E sq \in slid : /\ trial[sq[1]][sq[2]] = DOT
                                  /\ trial[dest[1]][dest[2]] = Mover(t)
                                  /\ \A other \in slid : ~Before(other, sq)

\* "Qh4" has been applied with White queens on d4 and h1 and a White rook on
\* h4: the queen of d4 has crossed e4, f4 and g4 and stands on h4.
C24_Witness ==
    /\ Tried(Str(<<"Q", "h", "4">>))
    /\ fen = FenCrowdedWhite
    /\ board[4][3] = Ch_Q /\ board[4][7] = Ch_R
    /\ applied = 1
    /\ trial[4][3] = DOT
    /\ trial[4][7] = Ch_Q
    /\ trial[7][7] = Ch_Q

\* Token t without its trailing check and mate marks.
RECURSIVE Unmarked(_)
Unmarked(t) ==
    IF Len(t) > 0 /\ t[Len(t)] \in {PLUS, HASH}
    THEN Unmarked(SubSeq(t, 1, Len(t) - 1))
    ELSE t

\* What apply_move reads of token t: its first 15 characters without the
\* check and mate marks and without the promotion suffix.
Stem(t) == Core(Unmarked(SubSeq(t, 1, Min(Len(t), MAX_MOVE_LEN - 1))))

\* The destination square of token t, as <<row, column>>.
DestOf(t) == <<Ch_8 - Stem(t)[Len(Stem(t))], Stem(t)[Len(Stem(t)) - 1] - ch_a>>

Castling(t) == t \in KingsideTokens \cup QueensideTokens

\* C25: a token other than castling that applies changes at most the source
\* of the mover, the destination, and the square on the source's rank and
\* the destination's file; the last only when a pawn has moved to another
\* file onto an empty destination.
C25_ThreeSquares ==
    (i = 1 /\ Len(move_list) = 1 /\ applied = 1 /\ ~Castling(move_list[1])) =>
        LET t == move_list[1]
            dest == DestOf(t)
        IN \E src \in Squares :
              LET beside == <<src[1], dest[2]>> IN
              /\ board[src[1]][src[2]] = Mover(t)
              /\ Changed(board, trial) \subseteq {src, dest, beside}
              /\ beside \in Changed(board, trial) \ {src, dest} =>
                    /\ toupper(Mover(t)) = Ch_P
                    /\ src[2] # dest[2]
                    /\ board[dest[1]][dest[2]] = DOT

\* "exd6" has been applied with a White pawn on e5, a Black pawn on d5 and d6
\* empty: e5, d6 and d5 have changed and nothing else.
C25_Witness ==
    /\ Tried(Str(<<"e", "x", "d", "6">>))
    /\ fen = FenWhiteSpecial
    /\ applied = 1
    /\ Changed(board, trial) = {<<3, 4>>, <<2, 3>>, <<3, 3>>}

\* The number of squares of board b that hold a piece.
Occupied(b) == Cardinality({sq \in Squares : b[sq[1]][sq[2]] # DOT})

MarkRuns == {<<PLUS>>, <<HASH>>}

\* The run of alternating marks that makes token t 15 characters long.
MarksToLimit(t) ==
    [k \in 1..(MAX_MOVE_LEN - 1 - Len(t)) |-> IF k % 2 = 1 THEN PLUS ELSE HASH]

\* What the iteration in the state has made of its token.
Made == [ok |-> applied, board |-> trial]

\* C27: check and mate marks do not change the outcome. For a token t other
\* than castling, of at most 14 characters and not ending in '+' or '#',
\* apply_move on t followed by a run of marks, 15 characters at most in all,
\* returns the flag and leaves the board of apply_move on t; for "O-O" and
\* "O-O-O" the same holds with one '+' or one '#' appended.
C27_MarksIgnored ==
    (pc = "loop" /\ i = 1 /\ Len(move_list) = 1) =>
        LET t == move_list[1]
            bare == Unmarked(t)
        IN /\ (~Castling(t) /\ Len(t) <= MAX_MOVE_LEN - 2 /\ bare = t) =>
                 \A run \in MarkRuns \cup {MarksToLimit(t)} :
                    Len(t) + Len(run) <= MAX_MOVE_LEN - 1 =>
                        apply_move(board, t \o run, side) = Made
           /\ (bare # t /\ bare # <<>> /\ ~Castling(bare) /\ Len(t) <= MAX_MOVE_LEN - 1) =>
                 apply_move(board, bare, side) = Made
           /\ t \in {Str(<<"O", "-", "O">>), Str(<<"O", "-", "O", "-", "O">>)} =>
                 \A mark \in {PLUS, HASH} : apply_move(board, t \o <<mark>>, side) = Made

\* "exd6+#" has been applied with a White pawn on e5 and a Black pawn on d5,
\* as "exd6" applies: the pawn stands on d6 and d5 is empty.
C27_Witness ==
    /\ Tried(Str(<<"e", "x", "d", "6", "+", "#">>))
    /\ fen = FenWhiteSpecial
    /\ applied = 1
    /\ trial[2][3] = Ch_P
    /\ trial[3][3] = DOT
    /\ apply_move(board, Str(<<"e", "x", "d", "6">>), side) = Made

\* The field of FEN string f has a rank that runs past the eighth column or
\* a rank after the eighth.
Overflows(f) ==
    LET ranks == SplitRanks(Field(f)) IN
    \/ Len(ranks) > ROWS
    \/ \E r \in 1..Len(ranks) : Len(Expand(ranks[r])) > COLS

\* C28: the board parse_fen leaves holds at (row, col), for row and col in
\* 0..7, square col + 1 of rank row + 1 of the placement field written out,
\* and '.' where the field has no such rank or the rank no such square; what
\* the field writes past the eighth column or the eighth rank appears
\* nowhere on the board.
C28_ParseFenClips ==
    pc \in {"copy", "split", "loop", "done"} =>
        LET ranks == SplitRanks(Field(fen)) IN
        \A r \in 0..(ROWS - 1) :
            LET squares == IF r + 1 <= Len(ranks) THEN Expand(ranks[r + 1]) ELSE <<>> IN
            \A c \in 0..(COLS - 1) :
                board[r][c] = IF c + 1 <= Len(squares) THEN squares[c + 1] ELSE DOT

\* A FEN string with a ninth letter in its first rank and three ranks after
\* the eighth has been decoded: the first rank holds its eight letters and
\* the second, which the field leaves empty, is empty.
C28_Witness ==
    /\ pc = "copy"
    /\ Overflows(fen)
    /\ Len(SplitRanks(Field(fen))) = 11
    /\ SplitRanks(Field(fen))[1] = Str(<<"r", "n", "b", "q", "k", "b", "n", "r", "Q">>)
    /\ board[0][7] = ch_r
    /\ \A c \in 0..(COLS - 1) : board[1][c] = DOT

\* A letter in the other case, any other character as it is.
OtherColour(ch) ==
    IF isupper(ch) THEN tolower(ch) ELSE IF ch \in ch_a..ch_z THEN toupper(ch) ELSE ch

\* Board b mirrored top to bottom with the colours swapped.
Reversed(b) ==
    [r \in 0..(ROWS - 1) |-> [c \in 0..(COLS - 1) |-> OtherColour(b[ROWS - 1 - r][c])]]

\* C29: the score of a board mirrored top to bottom with the colours swapped
\* is the negated score of the board, for the decoded board and for the
\* board the last token tried has left; the initial position scores 0.
C29_Antisymmetric ==
    /\ pc \in {"copy", "split", "loop", "done"} =>
          evaluate(Reversed(board)) = -evaluate(board)
    /\ (pc \in {"loop", "done"} /\ trial # UnsetBoard) =>
          evaluate(Reversed(trial)) = -evaluate(trial)
    /\ (pc \in {"copy", "split", "loop", "done"} /\ fen = FenStart) => evaluate(board) = 0

\* A board with a White pawn on e7, Black and White bishops on the third
\* rank from the top and a score other than 0 has been decoded.
C29_Witness ==
    /\ pc = "copy"
    /\ board[1][4] = Ch_P
    /\ board[2][2] = ch_b
    /\ board[2][4] = Ch_B
    /\ Reversed(board)[6][4] = ch_p
    /\ Reversed(board)[5][2] = Ch_B
    /\ evaluate(board) # 0
    /\ evaluate(Reversed(board)) = -evaluate(board)

(* ------------------------------------------------------------------ *)
(* Termination of choose_move                                         *)
(* ------------------------------------------------------------------ *)
\* How far the program has come; every step of Next changes it.
progress == <<pc, num_moves, i>>

\* A step of the program.
Advance == progress' # progress /\ Next

\* The guard of some action of Next holds: the program has a step to take.
Ready ==
    \/ pc = "idle"
    \/ pc = "parse"
    \/ pc = "copy"
    \/ pc = "split" /\ more_tokens(tok, num_moves)
    \/ pc = "split" /\ ~more_tokens(tok, num_moves) /\ num_moves = 0
    \/ pc = "split" /\ ~more_tokens(tok, num_moves) /\ num_moves # 0
    \/ pc = "loop" /\ more_candidates(i, num_moves, timeout)
    \/ pc = "loop" /\ ~more_candidates(i, num_moves, timeout)

\* One run of the program that keeps taking its steps: choose_move is
\* sequential code and nothing in it waits. The condition is weak fairness
\* of Next, WF_progress(Next), with the guards of the actions written out
\* for ENABLED: a program that always has a step to take takes steps again
\* and again.
SpecRun == Init /\ [][Next]_vars /\ ([]<>(~Ready) \/ []<><<Advance>>_progress)

\* The candidate loop is entered with the first min(n, 256) tokens of the
\* move string in the list, in their order and cut to 15 characters, and
\* with the first of them to attempt.
LoopEntered ==
    (pc # "loop" /\ pc' = "loop") =>
        LET starts == TokenStarts IN
        /\ i' = 0
        /\ num_moves' = Min(Cardinality(starts), MAX_MOVES)
        /\ Len(move_list') = num_moves'
        /\ \A st \in starts :
              LET nth == Cardinality({j \in starts : j <= st})
                  stop == CHOOSE k \in st..Len(moves) :
                              /\ k = Len(moves) \/ moves[k + 1] = SPACE
                              /\ \A j \in st..k : moves[j] # SPACE
              IN nth <= MAX_MOVES =>
                    move_list'[nth] = strncpy(SubSeq(moves, st, stop), MAX_MOVE_LEN - 1)

\* A step inside the loop attempts token number i on the decoded board,
\* whatever became of the tokens before it, and goes on to token i + 1.
TokenAttempted ==
    (pc = "loop" /\ pc' = "loop") =>
        /\ i < num_moves
        /\ applied' = apply_move(board, move_list[i + 1], side).ok
        /\ trial' = apply_move(board, move_list[i + 1], side).board
        /\ i' = i + 1
        /\ move_list' = move_list /\ num_moves' = num_moves /\ board' = board

\* The loop is left when every token of the list has been attempted, with an
\* index of the list returned.
LoopLeft ==
    (pc = "loop" /\ pc' = "done") =>
        /\ i = num_moves
        /\ result' \in 0..(num_moves - 1)

====
